---- MODULE Spec2Model ----
(***************************************************************************)
(* Birthday message system: hourly scheduler tick, batch dispatcher, SQS   *)
(* transport with dead-letter queue, delivery consumer and the DynamoDB    *)
(* delivery markers (lastBirthdayMessageDate / lastBirthdayMessageSent).   *)
(*                                                                         *)
(* Time has a resolution of one hour (the scheduler runs hourly).  The     *)
(* process clock is UTC (AWS Lambda), so date-fns `format(now, ...)` and   *)
(* Date#getFullYear() read the UTC calendar.  A timezone is a whole-hour   *)
(* UTC offset in -12..14.  A calendar date string "YYYY-MM-DD" is the      *)
(* record [y, m, d]; an ISO timestamp is the record [y, m, d, h]; the GSI  *)
(* key "MM-DD" is the pair <<m, d>>.                                       *)
(***************************************************************************)
EXTENDS Integers, Sequences, FiniteSets, Bags, TLC

VARIABLES
    now,          \* the wall clock, a UTC instant [y, m, d, h]
    users,        \* the DynamoDB table: userId -> item
    queue,        \* the SQS queue: the bag of visible messages
    dlq,          \* the dead-letter queue, a bag of messages
    workers,      \* the consumer instances and the records they process
    tickOut,      \* how the last scheduler invocation ended
    sweepOut,     \* how the last recovery invocation ended
    hist,         \* history: accepted sends, ledger writes, deleted messages
    budget,       \* the steps the environment has taken (clock, ticks, ...)
    api,          \* the user API: the updateUser call in flight, removed ids
    calc          \* the calculateDelaySeconds call made: arguments and result

vars == <<now, users, queue, dlq, workers, tickOut, sweepOut, hist, budget, api, calc>>

----------------------------------------------------------------------------
(* Program constants *)

TARGET_HOUR == 9
SQS_BATCH_SIZE == 10
DLQ_MAX_RECEIVE_COUNT == 3
CONSUMER_BATCH_SIZE == 10
RECOVERY_DAYS == 7

(* Bounds of the model *)

MaxHours == 1          \* clock advances per behaviour
MaxTicks == 1          \* scheduler invocations per behaviour
MaxCrashes == 1        \* consumer instances that die per behaviour
MaxBatches == 2        \* batches of one scheduler invocation
SchedUsers == 11       \* users of one birthday in the scheduler specification
MaxUsers == 2          \* users created per behaviour of the user API
MaxPrepErrors == 1     \* users whose entry fails in preparation, per tick
MaxSweeps == 2         \* recovery invocations per behaviour
MaxCalls == 1          \* updateUser calls per behaviour
MaxChunkUsers == 21    \* users due in one tick of the chunking runs

----------------------------------------------------------------------------
(* Calendar *)

NoDate == [y |-> 0, m |-> 0, d |-> 0]
NoInstant == [y |-> 0, m |-> 0, d |-> 0, h |-> 0]
\* the empty string '' that the DynamoDB expressions compare with
EmptyInstant == [y |-> 0, m |-> 0, d |-> 0, h |-> 1]

IsLeap(y) == (y % 4 = 0 /\ y % 100 # 0) \/ y % 400 = 0

DaysInMonth(y, m) ==
    IF m = 2 THEN (IF IsLeap(y) THEN 29 ELSE 28)
    ELSE IF m \in {4, 6, 9, 11} THEN 30 ELSE 31

NextDay(dt) ==
    IF dt.d < DaysInMonth(dt.y, dt.m) THEN [dt EXCEPT !.d = dt.d + 1]
    ELSE IF dt.m < 12 THEN [dt EXCEPT !.m = dt.m + 1, !.d = 1]
    ELSE [dt EXCEPT !.y = dt.y + 1, !.m = 1, !.d = 1]

PrevDay(dt) ==
    IF dt.d > 1 THEN [dt EXCEPT !.d = dt.d - 1]
    ELSE IF dt.m > 1
         THEN [dt EXCEPT !.m = dt.m - 1, !.d = DaysInMonth(dt.y, dt.m - 1)]
    ELSE [dt EXCEPT !.y = dt.y - 1, !.m = 12, !.d = 31]

\* date-fns addDays / subDays on the calendar part of a Date
RECURSIVE addDays(_, _)
addDays(dt, n) ==
    IF n = 0 THEN dt
    ELSE IF n > 0 THEN addDays(NextDay(dt), n - 1)
    ELSE addDays(PrevDay(dt), n + 1)

\* shift an instant by k hours, -24 < k < 24
AddHours(t, k) ==
    LET hh == t.h + k IN
    IF hh >= 24 THEN [NextDay(t) EXCEPT !.h = hh - 24]
    ELSE IF hh < 0 THEN [PrevDay(t) EXCEPT !.h = hh + 24]
    ELSE [t EXCEPT !.h = hh]

DateOf(t) == [y |-> t.y, m |-> t.m, d |-> t.d]
At(dt, hour) == [y |-> dt.y, m |-> dt.m, d |-> dt.d, h |-> hour]

CumDays == <<0, 31, 59, 90, 120, 151, 181, 212, 243, 273, 304, 334>>
LeapsUpTo(y) == (y \div 4) - (y \div 100) + (y \div 400)

\* Date#getTime(), in hours since 1970-01-01T00:00Z
getTime(t) ==
    LET days == 365 * (t.y - 1970) + (LeapsUpTo(t.y - 1) - LeapsUpTo(1969))
                + CumDays[t.m] + (IF IsLeap(t.y) /\ t.m > 2 THEN 1 ELSE 0)
                + (t.d - 1)
    IN days * 24 + t.h

----------------------------------------------------------------------------
(* TimezoneService *)

\* date-fns-tz utcToZonedTime(new Date(), timezone)
getCurrentTimeInTimezone(clock, timezone) == AddHours(clock, timezone)

\* zonedTimeToUtc(`${y}-${m}-${d}T${hour}:00:00`, timezone)
getTargetHourInUTC(dateString, timezone, hour) ==
    AddHours(At(dateString, hour), 0 - timezone)

\* faulty variant of calculateDelaySeconds: the delay is not capped
calculateDelaySecondsUncapped(dateString, timezone, hour, clock, ms) ==
    LET targetUTC == getTargetHourInUTC(dateString, timezone, hour)
        delaySeconds == (getTime(targetUTC) - getTime(clock)) * 3600
                        + ((0 - ms) \div 1000)
    IN IF delaySeconds < 0 THEN 0 ELSE delaySeconds

\* calculateDelaySeconds(dateString, timezone, hour) at the instant `ms`
\* milliseconds after `clock`: delayMs = targetUTC.getTime() - now.getTime() is
\* the whole hours between the two, in ms, less ms; delaySeconds is
\* Math.floor(delayMs / 1000), and \div is the floor
calculateDelaySeconds(dateString, timezone, hour, clock, ms) ==
    LET targetUTC == getTargetHourInUTC(dateString, timezone, hour)
        delaySeconds == (getTime(targetUTC) - getTime(clock)) * 3600
                        + ((0 - ms) \div 1000)
    IN IF delaySeconds < 0 THEN 0
       ELSE IF delaySeconds < 900 THEN delaySeconds ELSE 900

\* faulty variant of isToday: the date of the process clock, not of the timezone
isTodayOfProcess(dateString, timezone, clock) ==
    dateString.d = clock.d /\ dateString.m = clock.m

isToday(dateString, timezone, clock) ==
    LET local == getCurrentTimeInTimezone(clock, timezone) IN
    dateString.d = local.d /\ dateString.m = local.m

\* format(parseISO(dateString), 'MM-dd')
formatMonthDay(dateString) == <<dateString.m, dateString.d>>

----------------------------------------------------------------------------
(* UserService: the table and its birthday-index *)

UserIds == DOMAIN users

HasMonthDay(u) == users[u].birthdayMonthDay # <<0, 0>>

\* faulty variant of PassesSentFilter: the query without its filter
PassesSentFilterDropped(item, currentYearPrefix) == TRUE

\* the FilterExpression of the scheduler's query:
\* attribute_not_exists(lastBirthdayMessageSent) OR lastBirthdayMessageSent = :empty
\* OR NOT begins_with(lastBirthdayMessageSent, :currentYearPrefix)
PassesSentFilter(item, currentYearPrefix) ==
    \/ item.lastBirthdayMessageSent = NoInstant
    \/ item.lastBirthdayMessageSent = EmptyInstant
    \/ item.lastBirthdayMessageSent.y # currentYearPrefix

\* the ids of a set, in ascending order (the order the index returns them)
RECURSIVE SeqOfSet(_)
SeqOfSet(S) ==
    IF S = {} THEN <<>>
    ELSE LET x == CHOOSE a \in S : \A b \in S : a <= b
         IN <<x>> \o SeqOfSet(S \ {x})

\* getUsersByBirthdayMonthDay(monthDay, excludeSentBirthdayDate, currentYearPrefix)
getUsersByBirthdayMonthDay(monthDay, exclude, currentYearPrefix) ==
    SeqOfSet({u \in UserIds :
        /\ HasMonthDay(u)
        /\ users[u].birthdayMonthDay = monthDay
        /\ (exclude => PassesSentFilter(users[u], currentYearPrefix))})

\* new Map keyed by userId, first occurrence kept
RECURSIVE uniqueUsers(_, _)
uniqueUsers(list, seen) ==
    IF list = <<>> THEN <<>>
    ELSE IF Head(list) \in seen THEN uniqueUsers(Tail(list), seen)
    ELSE <<Head(list)>> \o uniqueUsers(Tail(list), seen \cup {Head(list)})

----------------------------------------------------------------------------
(* BirthdayService *)

getEventDate(u) == users[u].birthday

\* faulty variant of isBirthdayToday: the filter after the two queries dropped
isBirthdayTodayAlways(u, clock) == TRUE

isBirthdayToday(u, clock) == isToday(users[u].birthday, users[u].timezone, clock)

\* faulty variant of calculateNextBirthdayDelivery: the target hour of the day after
calculateNextBirthdayDeliveryDayAfter(u, clock) ==
    getTargetHourInUTC(addDays(DateOf(clock), 1), users[u].timezone, TARGET_HOUR)

calculateNextBirthdayDelivery(u, clock) ==
    LET todayString == DateOf(clock)      \* format(now, 'yyyy-MM-dd')
    IN getTargetHourInUTC(todayString, users[u].timezone, TARGET_HOUR)

getUsersWithEventToday(clock) ==
    LET today == formatMonthDay(DateOf(clock))
        tomorrow == formatMonthDay(addDays(DateOf(clock), 1))
        currentYearPrefix == clock.y
        usersToday == getUsersByBirthdayMonthDay(today, TRUE, currentYearPrefix)
        usersTomorrow == getUsersByBirthdayMonthDay(tomorrow, TRUE, currentYearPrefix)
        allUsers == usersToday \o usersTomorrow
    IN SelectSeq(uniqueUsers(allUsers, {}), LAMBDA u : isBirthdayToday(u, clock))

NoSchedule == [user |-> 0, targetUTC |-> NoInstant, delaySeconds |-> 0 - 1]

\* faulty variant of calculateSchedule: >= written for >
calculateScheduleStrict(u, clock) ==
    LET targetUTC == calculateNextBirthdayDelivery(u, clock) IN
    IF getTime(targetUTC) >= getTime(clock) THEN NoSchedule
    ELSE [user |-> u, targetUTC |-> targetUTC, delaySeconds |-> 0]

calculateSchedule(u, clock) ==
    LET targetUTC == calculateNextBirthdayDelivery(u, clock) IN
    IF getTime(targetUTC) > getTime(clock) THEN NoSchedule
    ELSE [user |-> u, targetUTC |-> targetUTC, delaySeconds |-> 0]

----------------------------------------------------------------------------
(* Scheduler handler *)

Min(a, b) == IF a < b THEN a ELSE b

\* faulty variant of chunkFrom: a last chunk shorter than size is dropped
RECURSIVE chunkFromFullOnly(_, _, _)
chunkFromFullOnly(array, size, i) ==
    IF i + size > Len(array) THEN <<>>
    ELSE <<SubSeq(array, i + 1, i + size)>> \o chunkFromFullOnly(array, size, i + size)

RECURSIVE chunkFrom(_, _, _)
chunkFrom(array, size, i) ==
    IF i >= Len(array) THEN <<>>
    ELSE <<SubSeq(array, i + 1, Min(i + size, Len(array)))>>
         \o chunkFrom(array, size, i + size)

chunkArray(array, size) == chunkFrom(array, size, 0)

createSQSMessageEntry(u, schedule, eventDate) ==
    [userId |-> u, eventDate |-> eventDate, timezone |-> users[u].timezone,
     targetUTC |-> schedule.targetUTC]

\* the entries processBatch prepares: the users whose schedule is not null
RECURSIVE prepareEntries(_, _)
prepareEntries(batch, clock) ==
    IF batch = <<>> THEN <<>>
    ELSE LET u == Head(batch)
             schedule == calculateSchedule(u, clock)
             rest == prepareEntries(Tail(batch), clock)
         IN IF schedule = NoSchedule THEN rest
            ELSE <<createSQSMessageEntry(u, schedule, getEventDate(u))>> \o rest

\* processBatch(batch): prepare the entries, submit them in one
\* SendMessageBatchCommand, count; submitOk is whether SQS accepts the submit
processBatch(batch, clock, submitOk) ==
    LET entries == prepareEntries(batch, clock)
        failedPrep == 0
    IN IF Len(entries) = 0
       THEN [entries |-> entries, submitted |-> FALSE, success |-> 0,
             failed |-> failedPrep]
       ELSE IF submitOk
       THEN [entries |-> entries, submitted |-> TRUE, success |-> Len(entries),
             failed |-> failedPrep]
       ELSE [entries |-> entries, submitted |-> TRUE, success |-> 0,
             failed |-> failedPrep + Len(entries)]

RECURSIVE SumSuccess(_)
SumSuccess(results) ==
    IF results = <<>> THEN 0
    ELSE Head(results).success + SumSuccess(Tail(results))

\* result.value.failed > 0 || result.value.success === 0
IsFailedBatch(result) == result.failed > 0 \/ result.success = 0

failedBatches(results) ==
    Cardinality({b \in DOMAIN results : IsFailedBatch(results[b])})

\* faulty variant of AllBatchesFailed: > written for ===
AllBatchesFailedOffByOne(results) ==
    failedBatches(results) > Len(results) /\ SumSuccess(results) = 0

\* if (failedBatches === userBatches.length && totalSuccess === 0) throw
AllBatchesFailed(results) ==
    failedBatches(results) = Len(results) /\ SumSuccess(results) = 0

\* a message: its body and ApproximateReceiveCount; occ is the year, in the
\* user's timezone at the time of emission, of the occurrence the task stands
\* for, and badSends counts the receives that ended with the sink refusing
NewMessage(body, clock) ==
    [body |-> body, rc |-> 0, badSends |-> 0,
     occ |-> getCurrentTimeInTimezone(clock, body.timezone).y]

One(x) == SetToBag({x})

RECURSIVE Enqueue(_, _, _)
Enqueue(q, entries, clock) ==
    IF entries = <<>> THEN q
    ELSE Enqueue(q (+) One(NewMessage(Head(entries), clock)), Tail(entries), clock)

\* faulty variant of EnqueuedEntries: one rejected submit cancels the others
RECURSIVE EnqueuedEntriesAllOrNothing(_)
EnqueuedEntriesAllOrNothing(results) ==
    IF \E b \in DOMAIN results : results[b].submitted /\ results[b].success = 0
    THEN <<>>
    ELSE IF results = <<>> THEN <<>>
    ELSE Head(results).entries \o EnqueuedEntriesAllOrNothing(Tail(results))

\* the entries of the batches whose submit succeeded, batch after batch
RECURSIVE EnqueuedEntries(_)
EnqueuedEntries(results) ==
    IF results = <<>> THEN <<>>
    ELSE (IF Head(results).success > 0 THEN Head(results).entries ELSE <<>>)
         \o EnqueuedEntries(Tail(results))

\* users bearing a delivery marker whose timestamp is in the year of `clock`
MarkedThisYear(clock) ==
    {u \in UserIds :
        /\ users[u].lastBirthdayMessageSent \notin {NoInstant, EmptyInstant}
        /\ users[u].lastBirthdayMessageSent.y = clock.y}

NoTickOut == [outcome |-> "none", results |-> <<>>, marked |-> {},
              queueUrl |-> TRUE, queries |-> 0]

\* a batch result: what processBatch returns, whether it submitted, and the
\* users of the entries it prepared
Summary(result) ==
    [submitted |-> result.submitted, success |-> result.success,
     failed |-> result.failed,
     entries |-> [k \in DOMAIN result.entries |-> result.entries[k].userId]]

\* what scheduleEvents returns or throws, given the batch results
scheduleEventsOutcome(found, results) ==
    IF Len(found) = 0 THEN "ok"
    ELSE IF AllBatchesFailed(results) THEN "error" ELSE "ok"

\* one scheduler invocation (scheduleEvents); okBatches are the batches whose
\* submit SQS accepts, the submit of every other batch is rejected.  tickOut
\* keeps how the invocation ended: the result of every batch, the users that
\* bore a current-year marker when it ran, whether SQS_QUEUE_URL was set and
\* how many index queries it made
Tick(okBatches) ==
    /\ budget.ticks < MaxTicks
    /\ budget' = [budget EXCEPT !.ticks = @ + 1]
    /\ LET found == getUsersWithEventToday(now)
           userBatches == chunkArray(found, SQS_BATCH_SIZE)
           results == [b \in DOMAIN userBatches |->
                          processBatch(userBatches[b], now, b \in okBatches)]
       IN /\ okBatches \subseteq DOMAIN userBatches
          /\ \A b \in okBatches : results[b].submitted
          /\ queue' = Enqueue(queue, EnqueuedEntries(results), now)
          /\ tickOut' = [outcome |-> scheduleEventsOutcome(found, results),
                         results |-> [b \in DOMAIN results |-> Summary(results[b])],
                         marked |-> MarkedThisYear(now),
                         queueUrl |-> TRUE, queries |-> 2]
    /\ UNCHANGED <<now, users, dlq, workers, sweepOut, hist, api, calc>>

\* the preparation loop of processBatch when the preparation of the users in
\* `bad` throws: the error is caught, the user counted as failed, the loop goes on
RECURSIVE prepareEntriesWith(_, _, _)
prepareEntriesWith(batch, clock, bad) ==
    IF batch = <<>> THEN <<>>
    ELSE LET u == Head(batch)
             schedule == calculateSchedule(u, clock)
             rest == prepareEntriesWith(Tail(batch), clock, bad)
         IN IF u \in bad \/ schedule = NoSchedule THEN rest
            ELSE <<createSQSMessageEntry(u, schedule, getEventDate(u))>> \o rest

processBatchWith(batch, clock, submitOk, bad) ==
    LET entries == prepareEntriesWith(batch, clock, bad)
        failedPrep == Cardinality({k \in DOMAIN batch : batch[k] \in bad})
    IN IF Len(entries) = 0
       THEN [entries |-> entries, submitted |-> FALSE, success |-> 0,
             failed |-> failedPrep]
       ELSE IF submitOk
       THEN [entries |-> entries, submitted |-> TRUE, success |-> Len(entries),
             failed |-> failedPrep]
       ELSE [entries |-> entries, submitted |-> TRUE, success |-> 0,
             failed |-> failedPrep + Len(entries)]

\* one scheduler invocation in which the preparation of the users in `bad`
\* throws
TickWith(okBatches, bad) ==
    /\ budget.ticks < MaxTicks
    /\ budget' = [budget EXCEPT !.ticks = @ + 1]
    /\ LET found == getUsersWithEventToday(now)
           userBatches == chunkArray(found, SQS_BATCH_SIZE)
           results == [b \in DOMAIN userBatches |->
                          processBatchWith(userBatches[b], now, b \in okBatches, bad)]
       IN /\ okBatches \subseteq DOMAIN userBatches
          /\ \A b \in okBatches : results[b].submitted
          /\ bad \subseteq {found[k] : k \in DOMAIN found}
          /\ Cardinality(bad) <= MaxPrepErrors
          /\ queue' = Enqueue(queue, EnqueuedEntries(results), now)
          /\ tickOut' = [outcome |-> scheduleEventsOutcome(found, results),
                         results |-> [b \in DOMAIN results |-> Summary(results[b])],
                         marked |-> MarkedThisYear(now),
                         queueUrl |-> TRUE, queries |-> 2]
    /\ UNCHANGED <<now, users, dlq, workers, sweepOut, hist, api, calc>>

\* faulty variant of TickNoQueueUrl: SQS_QUEUE_URL is tested after the users
\* were queried
TickNoQueueUrlLate ==
    /\ budget.ticks < MaxTicks
    /\ budget' = [budget EXCEPT !.ticks = @ + 1]
    /\ tickOut' = [NoTickOut EXCEPT !.outcome = "error", !.queueUrl = FALSE,
                                    !.queries = 2]
    /\ UNCHANGED <<now, users, queue, dlq, workers, sweepOut, hist, api, calc>>

\* one scheduler invocation without SQS_QUEUE_URL: scheduleEvents throws at
\* its first statement
TickNoQueueUrl ==
    /\ budget.ticks < MaxTicks
    /\ budget' = [budget EXCEPT !.ticks = @ + 1]
    /\ tickOut' = [NoTickOut EXCEPT !.outcome = "error", !.queueUrl = FALSE]
    /\ UNCHANGED <<now, users, queue, dlq, workers, sweepOut, hist, api, calc>>

----------------------------------------------------------------------------
(* utils/message-status and the consumer's conditional ledger write *)

Absent(v) == v = NoInstant \/ v = EmptyInstant

\* faulty variant of wasMessageSent: the marker is never found
wasMessageSentNever(u, eventDate, clock) == FALSE

\* wasMessageSent(userId, eventDate, 'birthday'): a GetCommand on the item
wasMessageSent(u, eventDate, clock) ==
    IF u \notin UserIds THEN FALSE
    ELSE /\ users[u].lastBirthdayMessageDate = eventDate
         /\ ~Absent(users[u].lastBirthdayMessageSent)
         /\ users[u].lastBirthdayMessageSent.y = clock.y

\* faulty variant of MarkCondition: an UpdateCommand without ConditionExpression
MarkConditionNone(u, eventDate) == TRUE

\* the ConditionExpression of markMessageAsSent's UpdateCommand
MarkCondition(u, eventDate) ==
    IF u \notin UserIds THEN TRUE
    ELSE \/ users[u].lastBirthdayMessageDate = NoDate
         \/ users[u].lastBirthdayMessageDate # eventDate
         \/ /\ users[u].lastBirthdayMessageDate = eventDate
            /\ Absent(users[u].lastBirthdayMessageSent)

\* an item that holds the key and the two marker attributes only
NoItem == [birthday |-> NoDate, timezone |-> 0, birthdayMonthDay |-> <<0, 0>>,
           lastBirthdayMessageDate |-> NoDate, lastBirthdayMessageSent |-> NoInstant]

\* faulty variant of MarkUpdate: only the timestamp is SET
MarkUpdateSentOnly(u, eventDate, clock) ==
    [x \in UserIds \cup {u} |->
        IF x = u
        THEN [(IF u \in UserIds THEN users[u] ELSE NoItem) EXCEPT
                 !.lastBirthdayMessageSent = clock]
        ELSE users[x]]

\* SET lastBirthdayMessageSent = :sentAt, lastBirthdayMessageDate = :eventDate
\* (UpdateItem creates the item when the key has none)
MarkUpdate(u, eventDate, clock) ==
    [x \in UserIds \cup {u} |->
        IF x = u
        THEN [(IF u \in UserIds THEN users[u] ELSE NoItem) EXCEPT
                 !.lastBirthdayMessageSent = clock,
                 !.lastBirthdayMessageDate = eventDate]
        ELSE users[x]]

----------------------------------------------------------------------------
(* Recovery handler *)

\* date-fns subDays(endDate, n), the time of day kept
subDays(t, n) == At(addDays(DateOf(t), 0 - n), t.h)

isEventToday(u, clock) == isToday(users[u].birthday, users[u].timezone, clock)

\* the loop of getUsersWithEventInRange: one query per day, from currentDate
\* while currentDate <= endDate
RECURSIVE rangeUsers(_, _)
rangeUsers(currentDate, endDate) ==
    IF getTime(currentDate) > getTime(endDate) THEN <<>>
    ELSE getUsersByBirthdayMonthDay(formatMonthDay(DateOf(currentDate)), FALSE, 0)
         \o rangeUsers(At(NextDay(DateOf(currentDate)), currentDate.h), endDate)

\* faulty variant of getUsersWithEventInRange: the loop stops before endDate
getUsersWithEventInRangeExclusive(startDate, endDate) ==
    uniqueUsers(rangeUsers(startDate, subDays(endDate, 1)), {})

getUsersWithEventInRange(startDate, endDate) ==
    uniqueUsers(rangeUsers(startDate, endDate), {})

\* faulty variant of shouldRecover: the ledger is not consulted
shouldRecoverUnchecked(u, clock) ==
    ~(/\ ~isEventToday(u, clock)
      /\ getTime(At(getEventDate(u), 0)) > getTime(clock))

\* the two `continue`s of the loop over the users: already sent, or not today
\* and new Date(eventDate) > now
shouldRecover(u, clock) ==
    /\ ~wasMessageSent(u, getEventDate(u), clock)
    /\ ~(/\ ~isEventToday(u, clock)
         /\ getTime(At(getEventDate(u), 0)) > getTime(clock))

\* the body of the recovered task: targetUTC is the target hour of the event
\* date in the current year of the process clock
recoveryMessageBody(u, clock) ==
    [userId |-> u, eventDate |-> getEventDate(u), timezone |-> users[u].timezone,
     targetUTC |-> getTargetHourInUTC(
                       [y |-> clock.y, m |-> getEventDate(u).m, d |-> getEventDate(u).d],
                       users[u].timezone, TARGET_HOUR)]

\* the year of the latest occurrence of a birthday that has begun, at `clock`,
\* in the timezone
LastOccurrenceYear(birthday, timezone, clock) ==
    LET local == getCurrentTimeInTimezone(clock, timezone) IN
    IF birthday.m < local.m \/ (birthday.m = local.m /\ birthday.d <= local.d)
    THEN local.y ELSE local.y - 1

RecoveryMessage(u, clock) ==
    [body |-> recoveryMessageBody(u, clock), rc |-> 0, badSends |-> 0,
     occ |-> LastOccurrenceYear(users[u].birthday, users[u].timezone, clock)]

RECURSIVE EnqueueRecovered(_, _, _)
EnqueueRecovered(q, list, clock) ==
    IF list = <<>> THEN q
    ELSE EnqueueRecovered(q (+) One(RecoveryMessage(Head(list), clock)),
                          Tail(list), clock)

NoSweepOut == [ran |-> FALSE, at |-> NoInstant, table |-> <<>>,
               found |-> <<>>, sent |-> <<>>, queued |-> <<>>,
               unread |-> {}, failed |-> {}, queueUrl |-> TRUE, queries |-> 0]

\* one recovery invocation (recoverEvents); okUsers are the users whose
\* SendMessageCommand the queue accepts, the error of every other send is caught.
\* sweepOut keeps when it ran, the table it read, the candidates it found, the
\* users it issued a send for, the users whose task was queued, the users
\* whose ledger read failed and the users whose handling raised an error
Recover(okUsers) ==
    /\ budget.sweeps < MaxSweeps
    /\ budget' = [budget EXCEPT !.sweeps = @ + 1]
    /\ LET endDate == now
           startDate == subDays(endDate, RECOVERY_DAYS)
           found == getUsersWithEventInRange(startDate, endDate)
           sent == SelectSeq(found, LAMBDA u : shouldRecover(u, now))
           queued == SelectSeq(sent, LAMBDA u : u \in okUsers)
       IN /\ okUsers \subseteq {sent[k] : k \in DOMAIN sent}
          /\ queue' = EnqueueRecovered(queue, queued, now)
          /\ sweepOut' = [ran |-> TRUE, at |-> now, table |-> users,
                          found |-> found, sent |-> sent, queued |-> queued,
                          unread |-> {},
                          failed |-> {sent[k] : k \in DOMAIN sent} \ okUsers,
                          queueUrl |-> TRUE, queries |-> RECOVERY_DAYS + 1]
    /\ UNCHANGED <<now, users, dlq, workers, tickOut, hist, api, calc>>

\* faulty variant of wasMessageSentOrError: a failed read counts as sent
wasMessageSentFailClosed(u, eventDate, clock, readOk) ==
    IF readOk THEN wasMessageSent(u, eventDate, clock) ELSE TRUE

\* wasMessageSent with its catch: false when the GetCommand throws
wasMessageSentOrError(u, eventDate, clock, readOk) ==
    IF readOk THEN wasMessageSent(u, eventDate, clock) ELSE FALSE

\* the two `continue`s of the loop, the ledger read failing for some users
shouldRecoverWith(u, clock, readErr) ==
    /\ ~wasMessageSentOrError(u, getEventDate(u), clock, u \notin readErr)
    /\ ~(/\ ~isEventToday(u, clock)
         /\ getTime(At(getEventDate(u), 0)) > getTime(clock))

\* the users of a list
Range(list) == {list[k] : k \in DOMAIN list}

\* faulty variant of RecoverWith: the first error ends the loop
RecoverWithAbort ==
    /\ budget.sweeps < MaxSweeps
    /\ budget' = [budget EXCEPT !.sweeps = @ + 1]
    /\ \E found \in {getUsersWithEventInRange(subDays(now, RECOVERY_DAYS), now)} :
       \E readErr \in SUBSET Range(found) :
       \E passed \in {SelectSeq(found, LAMBDA u : shouldRecoverWith(u, now, readErr))} :
       \E calcErr \in SUBSET Range(passed) :
       \E sent \in {SelectSeq(passed, LAMBDA u : u \notin calcErr)} :
       \E okUsers \in SUBSET Range(sent) :
       \E queued \in {LET bad == {k \in DOMAIN passed : passed[k] \notin okUsers}
                      IN IF bad = {} THEN passed
                         ELSE SubSeq(passed, 1, (CHOOSE k \in bad :
                                                   \A j \in bad : k <= j) - 1)} :
          /\ queue' = EnqueueRecovered(queue, queued, now)
          /\ sweepOut' = [ran |-> TRUE, at |-> now, table |-> users,
                          found |-> found, sent |-> sent, queued |-> queued,
                          unread |-> readErr,
                          failed |-> Range(passed) \ okUsers,
                          queueUrl |-> TRUE, queries |-> RECOVERY_DAYS + 1]
    /\ UNCHANGED <<now, users, dlq, workers, tickOut, hist, api, calc>>

\* one recovery invocation with per-user errors: readErr are the users whose
\* ledger read throws inside wasMessageSent, calcErr the users for whom the
\* computation of the target throws, okUsers the users whose
\* SendMessageCommand the queue accepts; the try/catch of the loop catches
\* every error and the loop goes on
RecoverWith ==
    /\ budget.sweeps < MaxSweeps
    /\ budget' = [budget EXCEPT !.sweeps = @ + 1]
    /\ \E found \in {getUsersWithEventInRange(subDays(now, RECOVERY_DAYS), now)} :
       \E readErr \in SUBSET Range(found) :
       \E passed \in {SelectSeq(found, LAMBDA u : shouldRecoverWith(u, now, readErr))} :
       \E calcErr \in SUBSET Range(passed) :
       \E sent \in {SelectSeq(passed, LAMBDA u : u \notin calcErr)} :
       \E okUsers \in SUBSET Range(sent) :
       \E queued \in {SelectSeq(sent, LAMBDA u : u \in okUsers)} :
          /\ queue' = EnqueueRecovered(queue, queued, now)
          /\ sweepOut' = [ran |-> TRUE, at |-> now, table |-> users,
                          found |-> found, sent |-> sent, queued |-> queued,
                          unread |-> readErr,
                          failed |-> Range(passed) \ okUsers,
                          queueUrl |-> TRUE, queries |-> RECOVERY_DAYS + 1]
    /\ UNCHANGED <<now, users, dlq, workers, tickOut, hist, api, calc>>

\* one recovery invocation without SQS_QUEUE_URL: recoverEvents throws at
\* its first statement
RecoverNoQueueUrl ==
    /\ budget.sweeps < MaxSweeps
    /\ budget' = [budget EXCEPT !.sweeps = @ + 1]
    /\ sweepOut' = [NoSweepOut EXCEPT !.at = now, !.queueUrl = FALSE]
    /\ UNCHANGED <<now, users, queue, dlq, workers, tickOut, hist, api, calc>>

----------------------------------------------------------------------------
(* Transport: SQS queue with a redrive policy (maxReceiveCount) *)

Consumers == {1, 2}

RECURSIVE BagToSeq(_)
BagToSeq(B) ==
    IF BagToSet(B) = {} THEN <<>>
    ELSE LET m == CHOOSE x \in BagToSet(B) : TRUE
         IN <<m>> \o BagToSeq(B (-) One(m))

\* a receive that ended in failure: back to the queue, or to the DLQ once the
\* message has been received maxReceiveCount times
ToDlq(m) == m.rc >= DLQ_MAX_RECEIVE_COUNT

IdleWorker == [pc |-> "idle", recs |-> <<>>]

\* what axios.post gives back: a response with a status, or a rejection
\* (no response, timeout, a status its validateStatus refuses)
SinkAnswers == [kind : {"response"}, status : {200, 201, 202, 203, 204, 301, 400, 404, 500, 503}]
               \cup {[kind |-> "rejected", status |-> 0]}

\* what a record's send met: whether HOOKBIN_URL was set, whether an HTTP
\* request was made, and what came back
NoSink == [configured |-> TRUE, requested |-> FALSE,
           answer |-> [kind |-> "none", status |-> 0]]

\* a record of the batch: the message, where processEventMessage stands, and
\* what this processing did (skipped as already sent, sent, wrote the marker,
\* failed to read the ledger, asked the sink)
NewRec(m) ==
    [msg |-> [m EXCEPT !.rc = @ + 1], pc |-> "fetch",
     skipped |-> FALSE, sentOk |-> FALSE, wrote |-> FALSE, unread |-> FALSE,
     sink |-> NoSink]

\* the event source mapping hands a batch of visible messages to an instance
Receive(c, batch) ==
    /\ workers[c].pc = "idle"
    /\ \A d \in Consumers : d < c => workers[d].pc # "idle"   \* instances are alike
    /\ BagCardinality(batch) \in 1..CONSUMER_BATCH_SIZE
    /\ queue' = queue (-) batch
    /\ LET list == BagToSeq(batch)
       IN workers' = [workers EXCEPT ![c] =
              [pc |-> "running", recs |-> [k \in DOMAIN list |-> NewRec(list[k])]]]
    /\ UNCHANGED <<now, users, dlq, tickOut, sweepOut, hist, budget, api, calc>>

Processing(c, k) == workers[c].pc = "running" /\ k \in DOMAIN workers[c].recs

Rec(c, k) == workers[c].recs[k]

SetRec(c, k, pc) == [workers EXCEPT ![c].recs[k].pc = pc]

Occurrence(m) == <<m.body.userId, m.occ>>

----------------------------------------------------------------------------
(* Consumer: processEventMessage, one await per action *)

\* const user = await userService.getUserById(message.userId)
Fetch(c, k) ==
    /\ Processing(c, k)
    /\ Rec(c, k).pc = "fetch"
    /\ workers' = SetRec(c, k, IF Rec(c, k).msg.body.userId \in UserIds
                                THEN "check" ELSE "ok")
    /\ UNCHANGED <<now, users, queue, dlq, tickOut, sweepOut, hist, budget, api, calc>>

\* const alreadySent = await wasMessageSent(...); if (alreadySent) return
processEventMessageCheck(c, k) ==
    LET body == Rec(c, k).msg.body
        alreadySent == wasMessageSent(body.userId, body.eventDate, now)
    IN workers' = [workers EXCEPT
                      ![c].recs[k].pc = IF alreadySent THEN "ok" ELSE "send",
                      ![c].recs[k].skipped = alreadySent]

Check(c, k) ==
    /\ Processing(c, k)
    /\ Rec(c, k).pc = "check"
    /\ processEventMessageCheck(c, k)
    /\ UNCHANGED <<now, users, queue, dlq, tickOut, sweepOut, hist, budget, api, calc>>

\* the GetCommand of wasMessageSent throws: the catch answers false
CheckFail(c, k) ==
    /\ Processing(c, k)
    /\ Rec(c, k).pc = "check"
    /\ LET body == Rec(c, k).msg.body
           alreadySent == wasMessageSentOrError(body.userId, body.eventDate, now, FALSE)
       IN workers' = [workers EXCEPT
                         ![c].recs[k].pc = IF alreadySent THEN "ok" ELSE "send",
                         ![c].recs[k].skipped = alreadySent,
                         ![c].recs[k].unread = TRUE]
    /\ UNCHANGED <<now, users, queue, dlq, tickOut, sweepOut, hist, budget, api, calc>>

\* await messageService.sendMessage(user, ...): the sink answers 200/201/204
SendOk(c, k) ==
    /\ Processing(c, k)
    /\ Rec(c, k).pc = "send"
    /\ hist' = [hist EXCEPT !.sends = @ (+) One(Occurrence(Rec(c, k).msg))]
    /\ workers' = [workers EXCEPT ![c].recs[k].pc = "mark",
                                  ![c].recs[k].sentOk = TRUE]
    /\ UNCHANGED <<now, users, queue, dlq, tickOut, sweepOut, budget, api, calc>>

\* faulty variant of HookbinSend: every response is a success
HookbinSendAnyResponse(configured, answer) ==
    IF ~configured THEN [requested |-> FALSE, ok |-> FALSE]
    ELSE [requested |-> TRUE, ok |-> answer.kind = "response"]

\* HookbinDeliveryService.send: throws when HOOKBIN_URL is not set, when
\* axios.post rejects and when the status is not 200, 201 or 204
HookbinSend(configured, answer) ==
    IF ~configured THEN [requested |-> FALSE, ok |-> FALSE]
    ELSE IF answer.kind = "rejected" THEN [requested |-> TRUE, ok |-> FALSE]
    ELSE [requested |-> TRUE, ok |-> answer.status \in {200, 201, 204}]

\* await messageService.sendMessage(user, ...) against a sink that gives
\* `answer`, HOOKBIN_URL being set or not
SendTo(c, k, configured, answer) ==
    /\ Processing(c, k)
    /\ Rec(c, k).pc = "send"
    /\ LET out == HookbinSend(configured, answer)
           sink == IF out.requested
                   THEN [configured |-> configured, requested |-> TRUE,
                         answer |-> answer]
                   ELSE [NoSink EXCEPT !.configured = configured]
       IN IF out.ok
          THEN /\ hist' = [hist EXCEPT !.sends = @ (+) One(Occurrence(Rec(c, k).msg))]
               /\ workers' = [workers EXCEPT ![c].recs[k].pc = "mark",
                                             ![c].recs[k].sentOk = TRUE,
                                             ![c].recs[k].sink = sink]
          ELSE /\ workers' = [workers EXCEPT ![c].recs[k].pc = "failed",
                                             ![c].recs[k].msg.badSends = @ + 1,
                                             ![c].recs[k].sink = sink]
               /\ UNCHANGED hist
    /\ UNCHANGED <<now, users, queue, dlq, tickOut, sweepOut, budget, api, calc>>

\* faulty variant of SendFail: the error of the send is swallowed and
\* processEventMessage goes on to markMessageAsSent
SendFailSwallowed(c, k) ==
    /\ Processing(c, k)
    /\ Rec(c, k).pc = "send"
    /\ workers' = [workers EXCEPT ![c].recs[k].pc = "mark",
                                  ![c].recs[k].msg.badSends = @ + 1]
    /\ UNCHANGED <<now, users, queue, dlq, tickOut, sweepOut, hist, budget, api, calc>>

\* the sink answers another status or the request fails: send throws
SendFail(c, k) ==
    /\ Processing(c, k)
    /\ Rec(c, k).pc = "send"
    /\ workers' = [workers EXCEPT ![c].recs[k].pc = "failed",
                                  ![c].recs[k].msg.badSends = @ + 1]
    /\ UNCHANGED <<now, users, queue, dlq, tickOut, sweepOut, hist, budget, api, calc>>

\* const wasMarked = await markMessageAsSent(...)
markMessageAsSent(c, k) ==
    LET m == Rec(c, k).msg
        accepted == MarkCondition(m.body.userId, m.body.eventDate)
    IN /\ users' = IF accepted
                   THEN MarkUpdate(m.body.userId, m.body.eventDate, now)
                   ELSE users
       /\ hist' = IF accepted
                  THEN [hist EXCEPT !.accepted = @ (+) One(Occurrence(m))]
                  ELSE hist
       /\ workers' = [workers EXCEPT ![c].recs[k].pc = "ok",
                                     ![c].recs[k].wrote = accepted]

Mark(c, k) ==
    /\ Processing(c, k)
    /\ Rec(c, k).pc = "mark"
    /\ markMessageAsSent(c, k)
    /\ UNCHANGED <<now, queue, dlq, tickOut, sweepOut, budget, api, calc>>

\* the UpdateCommand fails with an error other than
\* ConditionalCheckFailedException: markMessageAsSent rethrows it
MarkFail(c, k) ==
    /\ Processing(c, k)
    /\ Rec(c, k).pc = "mark"
    /\ workers' = SetRec(c, k, "failed")
    /\ UNCHANGED <<now, users, queue, dlq, tickOut, sweepOut, hist, budget, api, calc>>

\* processRecord's validation: a body without userId, eventDate or timezone
Malformed(body) == body.userId = 0 \/ body.eventDate = NoDate

\* faulty variant of Validate: the malformed record is logged and dropped
ValidateDrops(c, k) ==
    /\ Processing(c, k)
    /\ Rec(c, k).pc = "fetch"
    /\ Malformed(Rec(c, k).msg.body)
    /\ workers' = SetRec(c, k, "ok")
    /\ UNCHANGED <<now, users, queue, dlq, tickOut, sweepOut, hist, budget, api, calc>>

\* processRecord throws 'Invalid message format' before processEventMessage
Validate(c, k) ==
    /\ Processing(c, k)
    /\ Rec(c, k).pc = "fetch"
    /\ Malformed(Rec(c, k).msg.body)
    /\ workers' = SetRec(c, k, "failed")
    /\ UNCHANGED <<now, users, queue, dlq, tickOut, sweepOut, hist, budget, api, calc>>

\* faulty variant of sqsConsumerFails: the collected errors are not rethrown
sqsConsumerFailsNever(c) == FALSE

\* sqsConsumer after Promise.allSettled: throws when a record failed, and then
\* the whole batch returns to the queue
sqsConsumerFails(c) ==
    \E k \in DOMAIN workers[c].recs : workers[c].recs[k].pc = "failed"

RECURSIVE BagOf(_)
BagOf(list) ==
    IF list = <<>> THEN EmptyBag ELSE One(Head(list)) (+) BagOf(Tail(list))

\* how often a message was received, and how often the sink then refused
Receives(m) == [rc |-> m.rc, badSends |-> m.badSends]

BatchMsgs(c) == [k \in DOMAIN workers[c].recs |-> workers[c].recs[k].msg]

\* the batch of instance c comes back as received and failed
ReturnBatch(c) ==
    /\ queue' = queue (+) BagOf(SelectSeq(BatchMsgs(c), LAMBDA m : ~ToDlq(m)))
    /\ dlq' = dlq (+) BagOf(SelectSeq(BatchMsgs(c), ToDlq))

\* faulty variant of Finish: the invocation ends at the first failed record
FinishAtFirstFailure(c) ==
    /\ workers[c].pc = "running"
    /\ \/ \A k \in DOMAIN workers[c].recs : workers[c].recs[k].pc \in {"ok", "failed"}
       \/ sqsConsumerFails(c)
    /\ IF sqsConsumerFails(c)
       THEN ReturnBatch(c) /\ UNCHANGED hist
       ELSE /\ hist' = [hist EXCEPT !.deleted = @ \cup
                            {Receives(BatchMsgs(c)[k]) : k \in DOMAIN BatchMsgs(c)}]
            /\ UNCHANGED <<queue, dlq>>
    /\ workers' = [workers EXCEPT ![c] = IdleWorker]
    /\ UNCHANGED <<now, users, tickOut, sweepOut, budget, api, calc>>

Finish(c) ==
    /\ workers[c].pc = "running"
    /\ \A k \in DOMAIN workers[c].recs : workers[c].recs[k].pc \in {"ok", "failed"}
    /\ IF sqsConsumerFails(c)
       THEN ReturnBatch(c) /\ UNCHANGED hist
       ELSE /\ hist' = [hist EXCEPT !.deleted = @ \cup
                            {Receives(BatchMsgs(c)[k]) : k \in DOMAIN BatchMsgs(c)}]
            /\ UNCHANGED <<queue, dlq>>
    /\ workers' = [workers EXCEPT ![c] = IdleWorker]
    /\ UNCHANGED <<now, users, tickOut, sweepOut, budget, api, calc>>

\* the instance dies (crash, timeout) with its batch in flight
Crash(c) ==
    /\ workers[c].pc = "running"
    /\ budget.crashes < MaxCrashes
    /\ budget' = [budget EXCEPT !.crashes = @ + 1]
    /\ ReturnBatch(c)
    /\ workers' = [workers EXCEPT ![c] = IdleWorker]
    /\ UNCHANGED <<now, users, tickOut, sweepOut, hist, api, calc>>

----------------------------------------------------------------------------
(* Environment *)

\* an hour passes
Advance ==
    /\ budget.hours < MaxHours
    /\ budget' = [budget EXCEPT !.hours = @ + 1]
    /\ now' = AddHours(now, 1)
    /\ UNCHANGED <<users, queue, dlq, workers, tickOut, sweepOut, hist, api, calc>>

----------------------------------------------------------------------------
(* Initial states *)

Item(birthday, timezone, markerDate, markerSent) ==
    [birthday |-> birthday, timezone |-> timezone,
     birthdayMonthDay |-> formatMonthDay(birthday),      \* createUser
     lastBirthdayMessageDate |-> markerDate,
     lastBirthdayMessageSent |-> markerSent]

\* the marker a delivery at the target hour of the occurrence of year y left
MarkerSentIn(birthday, timezone, y) ==
    getTargetHourInUTC([y |-> y, m |-> birthday.m, d |-> birthday.d],
                       timezone, TARGET_HOUR)

StartInstants == {[y |-> 2024, m |-> 12, d |-> 31, h |-> hh] : hh \in {9, 23}}

Birthdays == {[y |-> 1990, m |-> 12, d |-> 31], [y |-> 1991, m |-> 1, d |-> 1]}

Zones == {0, 14}

NoHist == [sends |-> EmptyBag, accepted |-> EmptyBag, deleted |-> {}]

NoBudget == [hours |-> 0, ticks |-> 0, crashes |-> 0, sweeps |-> 0]

\* no calculateDelaySeconds call made
NoCalc == [called |-> FALSE, dateString |-> NoDate, timezone |-> 0, hour |-> 0,
           ms |-> 0, result |-> 0]

\* no updateUser call made, in flight or answered null, no user removed by
\* deleteUser
NoApi == [calls |-> 0, updating |-> {}, notFound |-> {}, removed |-> {}]

\* a user created before the run, never delivered or delivered a year ago
InitUsers(clock, birthdays, zones) ==
    {(1 :> (IF marked
            THEN Item(b, z, b, MarkerSentIn(b, z,
                          getCurrentTimeInTimezone(clock, z).y - 1))
            ELSE Item(b, z, NoDate, NoInstant))) :
        b \in birthdays, z \in zones, marked \in BOOLEAN}

Init ==
    /\ now \in StartInstants
    /\ users \in InitUsers(now, Birthdays, Zones)
    /\ queue = EmptyBag
    /\ dlq = EmptyBag
    /\ hist = NoHist
    /\ workers = [c \in Consumers |-> IdleWorker]
    /\ tickOut = NoTickOut
    /\ sweepOut = NoSweepOut
    /\ budget = NoBudget
    /\ api = NoApi
    /\ calc = NoCalc

SchedulerNext == \E okBatches \in SUBSET (1..MaxBatches) : Tick(okBatches)

ConsumerNext ==
    \/ \E c \in Consumers : \E batch \in SubBag(queue) : Receive(c, batch)
    \/ \E c \in Consumers : \E k \in DOMAIN workers[c].recs : Fetch(c, k)
    \/ \E c \in Consumers : \E k \in DOMAIN workers[c].recs : Check(c, k)
    \/ \E c \in Consumers : \E k \in DOMAIN workers[c].recs : SendOk(c, k)
    \/ \E c \in Consumers : \E k \in DOMAIN workers[c].recs : SendFail(c, k)
    \/ \E c \in Consumers : \E k \in DOMAIN workers[c].recs : Mark(c, k)
    \/ \E c \in Consumers : Finish(c)
    \/ \E c \in Consumers : Crash(c)

Next == SchedulerNext \/ ConsumerNext \/ Advance

\* the whole system: scheduler ticks, the transport, two consumer instances
Spec == Init /\ [][Next]_vars

----------------------------------------------------------------------------
(* The scheduler alone, for every UTC offset *)

AllZones == (0 - 12)..14

SchedInstants == {[y |-> 2024, m |-> 12, d |-> 31, h |-> hh] : hh \in {8, 9, 10, 23}}

\* whether a user of this birthday and offset has been emitted a task at `clock`
DueAt(birthday, timezone, clock) ==
    /\ isToday(birthday, timezone, clock)
    /\ getTime(getTargetHourInUTC(DateOf(clock), timezone, TARGET_HOUR))
           <= getTime(clock)

\* one user of any offset: never delivered, delivered a year ago, or delivered
\* within this hour (only a user the scheduler emits can have been)
OneUserTables(clock) ==
    {(1 :> Item(b, z, NoDate, NoInstant)) : b \in Birthdays, z \in AllZones}
    \cup {(1 :> Item(b, z, b, MarkerSentIn(b, z,
                       getCurrentTimeInTimezone(clock, z).y - 1))) :
             b \in Birthdays, z \in AllZones}
    \cup {(1 :> Item(due[1], due[2], due[1], clock)) :
             due \in {bz \in Birthdays \X AllZones : DueAt(bz[1], bz[2], clock)}}

\* SchedUsers users of one birthday in UTC, never delivered: more than a batch
ManyUserTables ==
    {[u \in 1..SchedUsers |-> Item(b, 0, NoDate, NoInstant)] : b \in Birthdays}

InitSched ==
    /\ now \in SchedInstants
    /\ users \in OneUserTables(now) \cup ManyUserTables
    /\ queue = EmptyBag
    /\ dlq = EmptyBag
    /\ hist = NoHist
    /\ workers = [c \in Consumers |-> IdleWorker]
    /\ tickOut = NoTickOut
    /\ sweepOut = NoSweepOut
    /\ budget = NoBudget
    /\ api = NoApi
    /\ calc = NoCalc

NextSched == SchedulerNext \/ Advance

SpecSched == InitSched /\ [][NextSched]_vars

----------------------------------------------------------------------------
(* Two instances and one task delivered twice, the sink accepting every send *)

\* the task the scheduler emits for user u at `clock`
TaskOf(u, clock) ==
    NewMessage(createSQSMessageEntry(u, calculateSchedule(u, clock),
                                     getEventDate(u)), clock)

InitRace ==
    /\ now \in StartInstants
    /\ users \in {t \in InitUsers(now, Birthdays, Zones) :
                    t[1].lastBirthdayMessageDate = NoDate}
    /\ DueAt(users[1].birthday, users[1].timezone, now)
    /\ queue = One(TaskOf(1, now)) (+) One(TaskOf(1, now))
    /\ dlq = EmptyBag
    /\ hist = NoHist
    /\ workers = [c \in Consumers |-> IdleWorker]
    /\ tickOut = NoTickOut
    /\ sweepOut = NoSweepOut
    /\ budget = NoBudget
    /\ api = NoApi
    /\ calc = NoCalc

NextRace ==
    \/ \E c \in Consumers : \E batch \in SubBag(queue) : Receive(c, batch)
    \/ \E c \in Consumers : \E k \in DOMAIN workers[c].recs : Fetch(c, k)
    \/ \E c \in Consumers : \E k \in DOMAIN workers[c].recs : Check(c, k)
    \/ \E c \in Consumers : \E k \in DOMAIN workers[c].recs : SendOk(c, k)
    \/ \E c \in Consumers : \E k \in DOMAIN workers[c].recs : Mark(c, k)
    \/ \E c \in Consumers : Finish(c)

SpecRace == InitRace /\ [][NextRace]_vars

----------------------------------------------------------------------------
(* The scheduler alone, the preparation of an entry may throw *)

\* the users whose preparation may throw: the first of every batch (the users
\* of a table of many are alike)
PrepErrorUsers == {u \in UserIds : (u - 1) % SQS_BATCH_SIZE = 0}

\* the sets of at most n of them
RECURSIVE UsersUpTo(_)
UsersUpTo(n) ==
    IF n = 0 THEN {{}}
    ELSE UsersUpTo(n - 1) \cup {B \cup {u} : B \in UsersUpTo(n - 1), u \in PrepErrorUsers}

NextPrep ==
    \/ \E okBatches \in SUBSET (1..MaxBatches) : \E bad \in UsersUpTo(MaxPrepErrors) :
          TickWith(okBatches, bad)
    \/ Advance

SpecPrep == InitSched /\ [][NextPrep]_vars

----------------------------------------------------------------------------
(* The recovery sweep alone, for every UTC offset *)

SweepInstants ==
    {[y |-> 2024, m |-> 12, d |-> 31, h |-> 9],
     [y |-> 2024, m |-> 12, d |-> 31, h |-> 23],
     [y |-> 2025, m |-> 1, d |-> 1, h |-> 5]}

SweepBirthdays ==
    Birthdays \cup {[y |-> 1992, m |-> 12, d |-> 24], [y |-> 1993, m |-> 12, d |-> 23]}

\* the markers a user can bear at `clock`: none, the one of the occurrence a
\* year before the latest, or the one of the latest occurrence if its target
\* hour has passed
MarkersAt(birthday, timezone, clock) ==
    LET last == LastOccurrenceYear(birthday, timezone, clock)
        delivered == MarkerSentIn(birthday, timezone, last)
    IN {<<NoDate, NoInstant>>,
        <<birthday, MarkerSentIn(birthday, timezone, last - 1)>>}
       \cup (IF getTime(delivered) <= getTime(clock)
             THEN {<<birthday, delivered>>} ELSE {})

SweepTables(clock) ==
    {(1 :> Item(b, z, mk[1], mk[2])) :
        b \in SweepBirthdays, z \in AllZones,
        mk \in UNION {MarkersAt(bb, zz, clock) : bb \in SweepBirthdays, zz \in AllZones}}
    \cup {(1 :> Item(b, 0, NoDate, NoInstant)) @@ (2 :> Item(b, 0, mk[1], mk[2])) :
             b \in Birthdays, mk \in UNION {MarkersAt(bb, 0, clock) : bb \in Birthdays}}

\* a table whose every marker is one its user can bear
PossibleTable(table, clock) ==
    \A u \in DOMAIN table :
        <<table[u].lastBirthdayMessageDate, table[u].lastBirthdayMessageSent>>
            \in MarkersAt(table[u].birthday, table[u].timezone, clock)

InitSweep ==
    /\ now \in SweepInstants
    /\ users \in {t \in SweepTables(now) : PossibleTable(t, now)}
    /\ queue = EmptyBag
    /\ dlq = EmptyBag
    /\ hist = NoHist
    /\ workers = [c \in Consumers |-> IdleWorker]
    /\ tickOut = NoTickOut
    /\ sweepOut = NoSweepOut
    /\ budget = NoBudget
    /\ api = NoApi
    /\ calc = NoCalc

RecoveryNext == \E okUsers \in SUBSET UserIds : Recover(okUsers)

NextSweep == RecoveryNext \/ Advance

SpecSweep == InitSweep /\ [][NextSweep]_vars

----------------------------------------------------------------------------
(* Ticks, sweeps and one consumer that runs one task at a time, the sink
   accepting every send *)

\* the start instants, and one before the target hour of the day
RecoveryInstants ==
    StartInstants \cup {[y |-> 2024, m |-> 12, d |-> 31, h |-> 5]}

InitRecovery ==
    /\ now \in RecoveryInstants
    /\ users \in InitUsers(now, Birthdays, Zones)
    /\ queue = EmptyBag
    /\ dlq = EmptyBag
    /\ hist = NoHist
    /\ workers = [c \in Consumers |-> IdleWorker]
    /\ tickOut = NoTickOut
    /\ sweepOut = NoSweepOut
    /\ budget = NoBudget
    /\ api = NoApi
    /\ calc = NoCalc

OneTaskAtATime ==
    \/ \E m \in BagToSet(queue) : Receive(1, One(m))
    \/ Fetch(1, 1)
    \/ Check(1, 1)
    \/ SendOk(1, 1)
    \/ Mark(1, 1)
    \/ Finish(1)

NextRecovery == SchedulerNext \/ RecoveryNext \/ OneTaskAtATime

SpecRecovery == InitRecovery /\ [][NextRecovery]_vars

----------------------------------------------------------------------------
(* The user API: createUser and updateUser on an empty table *)

\* createUser(request): PutCommand of a new item, its key derived from the
\* birthday; the id is fresh
CreateUser(request) ==
    /\ Len(users) < MaxUsers
    /\ users' = Append(users, [birthday |-> request.birthday,
                               timezone |-> request.timezone,
                               birthdayMonthDay |-> formatMonthDay(request.birthday),
                               lastBirthdayMessageDate |-> NoDate,
                               lastBirthdayMessageSent |-> NoInstant])
    /\ UNCHANGED <<now, queue, dlq, workers, tickOut, sweepOut, hist, budget, api, calc>>

\* faulty variant of UpdateUser: the key is not recomputed with the birthday
UpdateUserKeepsKey(userId, request) ==
    /\ users' = IF userId \notin UserIds THEN users
                ELSE [users EXCEPT
                        ![userId].birthday =
                            IF "birthday" \in DOMAIN request THEN request.birthday ELSE @,
                        ![userId].timezone =
                            IF "timezone" \in DOMAIN request THEN request.timezone ELSE @]
    /\ UNCHANGED <<now, queue, dlq, workers, tickOut, sweepOut, hist, budget, api, calc>>

\* updateUser(userId, request): null when the user does not exist; otherwise
\* an UpdateCommand that SETs the fields the request defines, birthday and
\* birthdayMonthDay together
UpdateUser(userId, request) ==
    /\ users' = IF userId \notin UserIds THEN users
                ELSE [users EXCEPT
                        ![userId].birthday =
                            IF "birthday" \in DOMAIN request THEN request.birthday ELSE @,
                        ![userId].birthdayMonthDay =
                            IF "birthday" \in DOMAIN request
                            THEN formatMonthDay(request.birthday) ELSE @,
                        ![userId].timezone =
                            IF "timezone" \in DOMAIN request THEN request.timezone ELSE @]
    /\ UNCHANGED <<now, queue, dlq, workers, tickOut, sweepOut, hist, budget, api, calc>>

ApiZones == {0 - 12, 0, 14}

CreateUserRequests == [birthday : Birthdays, timezone : ApiZones]

UpdateUserRequests ==
    [birthday : SweepBirthdays] \cup [timezone : ApiZones]
    \cup [birthday : SweepBirthdays, timezone : ApiZones]

InitUsersApi ==
    /\ now \in {t \in StartInstants : t.h = TARGET_HOUR}
    /\ users = <<>>
    /\ queue = EmptyBag
    /\ dlq = EmptyBag
    /\ hist = NoHist
    /\ workers = [c \in Consumers |-> IdleWorker]
    /\ tickOut = NoTickOut
    /\ sweepOut = NoSweepOut
    /\ budget = NoBudget
    /\ api = NoApi
    /\ calc = NoCalc

NextUsersApi ==
    \/ \E request \in CreateUserRequests : CreateUser(request)
    \/ \E userId \in 1..MaxUsers : \E request \in UpdateUserRequests :
          UpdateUser(userId, request)

SpecUsersApi == InitUsersApi /\ [][NextUsersApi]_vars

----------------------------------------------------------------------------
(* One invocation over a batch of two records: sends and ledger writes may
   fail, a payload may be malformed, a user may have been deleted *)

BatchInstant == [y |-> 2024, m |-> 12, d |-> 31, h |-> TARGET_HOUR]

BatchBirthday == [y |-> 1990, m |-> 12, d |-> 31]

\* a task for user u as the scheduler emits it at BatchInstant
BatchTask(u, eventDate) ==
    [body |-> [userId |-> u, eventDate |-> eventDate, timezone |-> 0,
               targetUTC |-> BatchInstant],
     rc |-> 0, badSends |-> 0, occ |-> BatchInstant.y]

\* user 1 never delivered, delivered a year ago or delivered this year; user 2
\* never delivered, or deleted since the task was emitted
BatchTables ==
    LET first == {Item(BatchBirthday, 0, NoDate, NoInstant),
                  Item(BatchBirthday, 0, BatchBirthday,
                       MarkerSentIn(BatchBirthday, 0, BatchInstant.y - 1)),
                  Item(BatchBirthday, 0, BatchBirthday, BatchInstant)}
    IN {(1 :> i) : i \in first}
       \cup {(1 :> i) @@ (2 :> Item(BatchBirthday, 0, NoDate, NoInstant)) : i \in first}

InitBatch ==
    /\ now = BatchInstant
    /\ users \in BatchTables
    /\ queue \in {One(BatchTask(1, BatchBirthday)) (+) One(BatchTask(2, eventDate)) :
                     eventDate \in {BatchBirthday, NoDate}}
    /\ dlq = EmptyBag
    /\ hist = NoHist
    /\ workers = [c \in Consumers |-> IdleWorker]
    /\ tickOut = NoTickOut
    /\ sweepOut = NoSweepOut
    /\ budget = NoBudget
    /\ api = NoApi
    /\ calc = NoCalc

NextBatch ==
    \/ \E c \in Consumers : \E batch \in SubBag(queue) : Receive(c, batch)
    \/ \E c \in Consumers : \E k \in DOMAIN workers[c].recs : Validate(c, k)
    \/ \E c \in Consumers : \E k \in DOMAIN workers[c].recs :
          ~Malformed(workers[c].recs[k].msg.body) /\ Fetch(c, k)
    \/ \E c \in Consumers : \E k \in DOMAIN workers[c].recs : Check(c, k)
    \/ \E c \in Consumers : \E k \in DOMAIN workers[c].recs : SendOk(c, k)
    \/ \E c \in Consumers : \E k \in DOMAIN workers[c].recs : SendFail(c, k)
    \/ \E c \in Consumers : \E k \in DOMAIN workers[c].recs : Mark(c, k)
    \/ \E c \in Consumers : \E k \in DOMAIN workers[c].recs : MarkFail(c, k)
    \/ \E c \in Consumers : Finish(c)

SpecBatch == InitBatch /\ [][NextBatch]_vars

----------------------------------------------------------------------------
(* An occurrence recovered after the turn of the year, and the occurrence of
   the year that follows *)

LateInstant == [y |-> 2025, m |-> 1, d |-> 2, h |-> TARGET_HOUR]

\* a user whose birthday of 2024-12-31 was not delivered: never delivered
\* before, or delivered the year before
LateTables ==
    {(1 :> Item(BatchBirthday, z, NoDate, NoInstant)) : z \in ApiZones}
    \cup {(1 :> Item(BatchBirthday, z, BatchBirthday,
                      MarkerSentIn(BatchBirthday, z, LateInstant.y - 2))) : z \in ApiZones}

InitLate ==
    /\ now = LateInstant
    /\ users \in LateTables
    /\ queue = EmptyBag
    /\ dlq = EmptyBag
    /\ hist = NoHist
    /\ workers = [c \in Consumers |-> IdleWorker]
    /\ tickOut = NoTickOut
    /\ sweepOut = NoSweepOut
    /\ budget = NoBudget
    /\ api = NoApi
    /\ calc = NoCalc

\* time passes, nothing queued or in flight, until the target hour of user u's
\* birthday of the running year
NextOccurrence(u) ==
    /\ budget.hours < MaxHours
    /\ queue = EmptyBag
    /\ \A c \in Consumers : workers[c].pc = "idle"
    /\ getTime(MarkerSentIn(users[u].birthday, users[u].timezone, now.y)) > getTime(now)
    /\ now' = MarkerSentIn(users[u].birthday, users[u].timezone, now.y)
    /\ budget' = [budget EXCEPT !.hours = @ + 1]
    /\ UNCHANGED <<users, queue, dlq, workers, tickOut, sweepOut, hist, api, calc>>

NextLate ==
    \/ SchedulerNext
    \/ RecoveryNext
    \/ OneTaskAtATime
    \/ \E u \in UserIds : NextOccurrence(u)

SpecLate == InitLate /\ [][NextLate]_vars

----------------------------------------------------------------------------
(* Properties *)

RunningRecs == {ck \in Consumers \X (1..CONSUMER_BATCH_SIZE) : Processing(ck[1], ck[2])}

\* C1: whatever the interleaving of the tasks of one user and one occurrence
\* (duplicate ticks, redelivery, concurrent instances), the sink receives at
\* most one send for that occurrence.
AtMostOneSendPerOccurrence ==
    \A o \in BagToSet(hist.sends) : CopiesIn(o, hist.sends) <= 1

\* both copies of the task are done with: deleted after a successful invocation
RaceOver == queue = EmptyBag /\ \A c \in Consumers : workers[c].pc = "idle"

\* C2: two instances given the same task, the user bearing no marker and the
\* sink accepting every send: never more than one conditional write is
\* accepted, and once both are done exactly one write was accepted and the
\* sink received one or two sends, never none.
ExactlyOneCommitOfTwo ==
    /\ BagCardinality(hist.accepted) <= 1
    /\ BagCardinality(hist.sends) <= 2
    /\ RaceOver => /\ BagCardinality(hist.accepted) = 1
                   /\ BagCardinality(hist.sends) \in {1, 2}

\* both instances passed the ledger check and sent; one write was accepted,
\* the other rejected
BothSentOneCommitted ==
    /\ \A c \in Consumers :
          /\ workers[c].pc = "running"
          /\ Len(workers[c].recs) = 1
          /\ workers[c].recs[1].sentOk
          /\ workers[c].recs[1].pc = "ok"
    /\ workers[1].recs[1].wrote # workers[2].recs[1].wrote

\* C3: the consumer reaches the ledger write, and writes a marker, only after
\* the send of that processing succeeded; so the accepted writes of an
\* occurrence never outnumber its successful sends (a crash between send and
\* write can duplicate a send, never leave a marker without a send).
MarkerOnlyAfterSend ==
    /\ \A ck \in RunningRecs :
          (Rec(ck[1], ck[2]).pc = "mark" \/ Rec(ck[1], ck[2]).wrote)
              => Rec(ck[1], ck[2]).sentOk
    /\ \A o \in BagToSet(hist.accepted) :
          CopiesIn(o, hist.accepted) <= CopiesIn(o, hist.sends)

\* an instance died between send and ledger write, the task came back and was
\* sent a second time, and then the marker was written
DuplicateSendThenMarker ==
    /\ budget.crashes > 0
    /\ \E o \in BagToSet(hist.sends) :
          CopiesIn(o, hist.sends) = 2 /\ CopiesIn(o, hist.accepted) = 1

\* the ledger holds, for this user, a marker of this date written this year
MarkerOfThisYear(u, eventDate, clock) ==
    /\ u \in UserIds
    /\ users[u].lastBirthdayMessageDate = eventDate
    /\ ~Absent(users[u].lastBirthdayMessageSent)
    /\ users[u].lastBirthdayMessageSent.y = clock.y

WriteAcceptedUnlessMarkedThisYear ==
    [][\A ck \in RunningRecs :
          Mark(ck[1], ck[2]) =>
              LET body == Rec(ck[1], ck[2]).msg.body IN
              IF MarkerOfThisYear(body.userId, body.eventDate, now)
              THEN users' = users
              ELSE /\ users'[body.userId].lastBirthdayMessageDate = body.eventDate
                   /\ users'[body.userId].lastBirthdayMessageSent = now]_vars

\* the users for whom the last scheduler invocation enqueued a task
Emitted ==
    UNION {{tickOut.results[b].entries[k] : k \in DOMAIN tickOut.results[b].entries} :
              b \in {bb \in DOMAIN tickOut.results : tickOut.results[bb].success > 0}}

\* C6: a tick emits a task for a user only when, in the user's timezone, the
\* local date is the user's birthday month-day and the local time is at or
\* after the target hour, for every UTC offset from -12 to +14.
EmitsOnlyFromLocalTargetHour ==
    [][budget'.ticks # budget.ticks =>
          \A u \in Emitted' :
              LET local == getCurrentTimeInTimezone(now, users[u].timezone)
              IN /\ formatMonthDay(DateOf(local)) = formatMonthDay(users[u].birthday)
                 /\ local.h >= TARGET_HOUR]_vars

\* every message, wherever it is: visible, in flight or dead-lettered
InFlight == {Rec(ck[1], ck[2]).msg : ck \in RunningRecs}

\* C7: a task whose every receive ended with the sink refusing the send is
\* never deleted; it is visible again only while it has been received fewer
\* than maxReceiveCount (3) times and is in the dead-letter queue after that;
\* and no occurrence has a marker written without a successful send.
RefusedTaskIsDeadLettered ==
    /\ \A r \in hist.deleted : r.badSends < r.rc
    /\ \A m \in BagToSet(queue) : m.rc < DLQ_MAX_RECEIVE_COUNT
    /\ \A m \in BagToSet(dlq) : m.rc = DLQ_MAX_RECEIVE_COUNT
    /\ \A m \in InFlight : m.rc <= DLQ_MAX_RECEIVE_COUNT
    /\ \A m \in BagToSet(queue) \cup BagToSet(dlq) \cup InFlight :
          CopiesIn(Occurrence(m), hist.sends) = 0
              => CopiesIn(Occurrence(m), hist.accepted) = 0

\* the sink refused the task at each of its three receives: it is in the
\* dead-letter queue, nothing was sent and no marker was written
RefusedThriceInDlq ==
    \E m \in BagToSet(dlq) :
        /\ m.badSends = DLQ_MAX_RECEIVE_COUNT
        /\ CopiesIn(Occurrence(m), hist.sends) = 0
        /\ CopiesIn(Occurrence(m), hist.accepted) = 0

\* a submit of the last scheduler invocation failed
SomeSubmitFailed ==
    \E b \in DOMAIN tickOut.results :
        tickOut.results[b].submitted /\ tickOut.results[b].success = 0

\* the number of items the last scheduler invocation enqueued
TotalEnqueued == SumSuccess(tickOut.results)

\* C8: a scheduler invocation ends with an error only in the total-failure
\* case: when an item was enqueued, or no batch submit failed (also when the
\* users found are not due yet and nothing was submitted), it ends without.
ErrorOnlyOnTotalFailure ==
    tickOut.outcome = "error" => (TotalEnqueued = 0 /\ SomeSubmitFailed)

\* C9: when the submit of every batch of a tick fails, so that nothing is
\* enqueued, the scheduler invocation ends with an error.
AllSubmitsFailedIsError ==
    (/\ Len(tickOut.results) > 0
     /\ \A b \in DOMAIN tickOut.results :
           tickOut.results[b].submitted /\ tickOut.results[b].success = 0)
        => tickOut.outcome = "error"

\* a tick of two batches, both submitted, both rejected by the queue
TwoBatchesBothRejected ==
    /\ Len(tickOut.results) = 2
    /\ \A b \in DOMAIN tickOut.results :
          tickOut.results[b].submitted /\ tickOut.results[b].success = 0
    /\ queue = EmptyBag

\* C10: a tick emits no task for a user who, when the tick runs, bears a
\* delivery marker whose timestamp is in the current calendar year.
MarkedThisYearNotEmitted == Emitted \cap tickOut.marked = {}

\* a tick has just run while a user marked this year was otherwise due
TickWithMarkedDueUser ==
    /\ tickOut.outcome # "none"
    /\ budget.hours = 0
    /\ \E u \in tickOut.marked :
          DueAt(users[u].birthday, users[u].timezone, now)

\* the users a tick at `clock` finds and leaves out as not yet due
SkippedAsNotYetDue(clock) ==
    LET found == getUsersWithEventToday(clock) IN
    {found[k] : k \in {j \in DOMAIN found : calculateSchedule(found[j], clock) = NoSchedule}}

\* the hourly ticks after `clock` that run on the same day of user u's timezone
LaterTicksOfLocalDay(u, clock) ==
    {t \in {AddHours(clock, k) : k \in 1..23} :
        DateOf(getCurrentTimeInTimezone(t, users[u].timezone))
            = DateOf(getCurrentTimeInTimezone(clock, users[u].timezone))}

\* whether a tick at `clock` prepares an entry for user u
EmitsAt(u, clock) ==
    LET found == getUsersWithEventToday(clock) IN
    /\ u \in {found[k] : k \in DOMAIN found}
    /\ calculateSchedule(u, clock) # NoSchedule

\* C11: a user whose birthday is today in their timezone, who bears no marker
\* of this year and whom a tick leaves out because the target instant is
\* later than now, is emitted by a later hourly tick of the same local day
SkippedIsEmittedLaterSameDay ==
    [][budget'.ticks # budget.ticks =>
          \A u \in SkippedAsNotYetDue(now) :
              \E t \in LaterTicksOfLocalDay(u, now) : EmitsAt(u, t)]_vars

TickSkippedThenDueLater ==
    /\ budget.ticks = 1
    /\ budget.hours = 0
    /\ tickOut.outcome = "error"
    /\ \E u \in SkippedAsNotYetDue(now) :
          \E t \in LaterTicksOfLocalDay(u, now) : EmitsAt(u, t)

\* instant a strictly after instant b, field by field
Later(a, b) ==
    \/ a.y > b.y
    \/ a.y = b.y /\ a.m > b.m
    \/ a.y = b.y /\ a.m = b.m /\ a.d > b.d
    \/ a.y = b.y /\ a.m = b.m /\ a.d = b.d /\ a.h > b.h

\* C16: calculateSchedule returns null exactly when the target instant is
\* strictly later than now; otherwise, equality included, it returns the
\* schedule of that user with that target instant and delaySeconds 0
NullExactlyWhenTargetLater ==
    \A u \in UserIds :
        LET target == calculateNextBirthdayDelivery(u, now)
            schedule == calculateSchedule(u, now)
        IN IF Later(target, now)
           THEN schedule = NoSchedule
           ELSE /\ schedule # NoSchedule
                /\ schedule = [user |-> u, targetUTC |-> target, delaySeconds |-> 0]

TickEmitsAtTargetInstant ==
    /\ budget.ticks = 1
    /\ budget.hours = 0
    /\ \E u \in Emitted :
          /\ calculateNextBirthdayDelivery(u, now) = now
          /\ calculateSchedule(u, now).delaySeconds = 0

\* whether the index query of a tick at `clock` for `monthDay` returns user u
InQuery(u, monthDay, clock) ==
    /\ users[u].birthdayMonthDay = monthDay
    /\ \/ users[u].lastBirthdayMessageSent \in {NoInstant, EmptyInstant}
       \/ users[u].lastBirthdayMessageSent.y # clock.y

LocalDate(timezone, clock) ==
    CHOOSE dt \in {PrevDay(DateOf(clock)), DateOf(clock), NextDay(DateOf(clock))} :
        /\ getTime(At(dt, 0)) <= getTime(clock) + timezone
        /\ getTime(clock) + timezone < getTime(At(dt, 0)) + 24

\* C18: isToday is true exactly when the month and the day of the date string
\* are those of the current date in the timezone, whatever the year of the
\* date string, for every UTC offset from -12 to 14
IsTodayIffLocalMonthDay ==
    \A u \in UserIds :
        LET local == LocalDate(users[u].timezone, now) IN
        isToday(users[u].birthday, users[u].timezone, now)
            <=> (users[u].birthday.m = local.m /\ users[u].birthday.d = local.d)

TodayInZoneNotInUTC ==
    /\ budget.ticks = 1
    /\ \E u \in UserIds :
          /\ isToday(users[u].birthday, users[u].timezone, now)
          /\ users[u].birthday.y # now.y
          /\ <<users[u].birthday.m, users[u].birthday.d>> # <<now.m, now.d>>
          /\ u \in Emitted

CountIn(list, x) == Cardinality({k \in DOMAIN list : list[k] = x})

\* whether the month-day of the item is one of the days the sweep of `clock`
\* looks back over: today and the RECOVERY_DAYS days before
InLookbackWindow(item, clock) ==
    \E k \in 0..RECOVERY_DAYS :
        LET day == addDays(DateOf(clock), 0 - k) IN
        item.birthdayMonthDay = <<day.m, day.d>>

SweepEmitsNoFutureOccurrence ==
    sweepOut.ran =>
        \A u \in DOMAIN sweepOut.table :
            LET item == sweepOut.table[u]
                local == getCurrentTimeInTimezone(sweepOut.at, item.timezone)
            IN item.birthdayMonthDay = formatMonthDay(NextDay(DateOf(local)))
                   => CountIn(sweepOut.sent, u) = 0

\* nothing is queued, dead-lettered or being processed
Quiescent ==
    /\ queue = EmptyBag
    /\ dlq = EmptyBag
    /\ \A c \in Consumers : workers[c].pc = "idle"

\* C12: an occurrence left undelivered, the sink accepting every send: once a
\* recovery sweep has re-emitted the task and the consumer is done with it,
\* the user has got a successful send and bears a marker of this year
RecoveredOccurrenceIsMarked ==
    (sweepOut.ran /\ Quiescent) =>
        \A k \in DOMAIN sweepOut.queued :
            LET u == sweepOut.queued[k] IN
            /\ \E o \in BagToSet(hist.sends) : o[1] = u
            /\ MarkerOfThisYear(u, getEventDate(u), now)

\* C20: with a consumer that runs one task at a time and a sink that accepts
\* every send, a user who bears the marker of an earlier delivery receives no
\* more than one send for the occurrence of the following year, however many
\* ticks and sweeps emit a task
OneSendInYearAfterDelivery ==
    \A o \in BagToSet(hist.sends) :
        (/\ users[o[1]].lastBirthdayMessageDate = users[o[1]].birthday
         /\ ~Absent(users[o[1]].lastBirthdayMessageSent)
         /\ users[o[1]].lastBirthdayMessageSent.y >= o[2] - 1)
        => CopiesIn(o, hist.sends) = 1

\* C19: after any sequence of createUser and updateUser calls every stored
\* record that has a birthday has, as birthdayMonthDay, the month and the day
\* of that birthday
MonthDayKeyFollowsBirthday ==
    \A u \in DOMAIN users :
        users[u].birthday # NoDate =>
            /\ users[u].birthdayMonthDay[1] = users[u].birthday.m
            /\ users[u].birthdayMonthDay[2] = users[u].birthday.d

\* a record whose birthday an update moved to a day no create request names
BirthdayMovedByUpdate ==
    \E u \in DOMAIN users :
        /\ users[u].birthday \in SweepBirthdays \ Birthdays
        /\ users[u].birthdayMonthDay = <<users[u].birthday.m, users[u].birthday.d>>

\* C22: at every tick, every user without a marker of this year whose birthday
\* month-day is the current date of the user's own timezone is returned by the
\* today query or by the today+1 query, for every UTC offset from -12 to 14
TwoDayQueryCoversLocalToday ==
    [][budget'.ticks # budget.ticks =>
          \A u \in UserIds :
              LET local == LocalDate(users[u].timezone, now)
                  next == NextDay(DateOf(now))
              IN (/\ PassesSentFilter(users[u], now.y)
                  /\ users[u].birthdayMonthDay = <<local.m, local.d>>)
                 => \/ InQuery(u, <<now.m, now.d>>, now)
                    \/ InQuery(u, <<next.m, next.d>>, now)]_vars

\* C25: a recovery sweep that runs in early January with a lookback window
\* reaching back into December emits no task for a user whose December
\* birthday was sent and committed in the calendar year before
JanuarySweepSkipsDecemberDelivery ==
    sweepOut.ran =>
        \A u \in DOMAIN sweepOut.table :
            LET item == sweepOut.table[u] IN
            (/\ sweepOut.at.m = 1
             /\ item.birthday.m = 12
             /\ item.lastBirthdayMessageDate = item.birthday
             /\ item.lastBirthdayMessageSent
                    = MarkerSentIn(item.birthday, item.timezone, sweepOut.at.y - 1))
            => CountIn(sweepOut.sent, u) = 0

\* C21: no outbound send of a task happens before the task's targetUTC, the
\* target hour of the occurrence day in the user's timezone, whichever of the
\* scheduler and the recovery sweeper emitted the task
NoSendBeforeTargetUTC ==
    [][\A ck \in RunningRecs :
          (/\ Rec(ck[1], ck[2]).pc = "send"
           /\ hist'.sends # hist.sends
           /\ workers'[ck[1]].recs[ck[2]].pc = "mark")
          => getTime(Rec(ck[1], ck[2]).msg.body.targetUTC) <= getTime(now)]_vars

\* the invocation of instance c returns or throws (it does not die)
BatchEnds(c) ==
    /\ workers[c].pc = "running"
    /\ workers'[c].pc = "idle"
    /\ budget' = budget

\* the message is back in the queue or in the dead-letter queue after the step
Returned(m) ==
    \/ CopiesIn(m, queue') > CopiesIn(m, queue)
    \/ CopiesIn(m, dlq') > CopiesIn(m, dlq)

\* C23: a task whose own processing finished successfully (dropped or sent and
\* committed) is not given back to the transport, for redelivery or for the
\* dead-letter queue, because another record of the batch failed
SuccessfulTaskNotReturned ==
    [][\A c \in Consumers :
          BatchEnds(c) =>
              \A k \in DOMAIN workers[c].recs :
                  Rec(c, k).pc = "ok" => ~Returned(Rec(c, k).msg)]_vars

\* C27: the failure of one record of a batch does not keep any other record
\* from being processed to its end: the invocation ends only when every record
\* has either completed or failed by itself, and a step of one record leaves
\* the other records as they are
RecordsProcessedIndependently ==
    [][\A c \in Consumers :
          /\ BatchEnds(c) =>
                \A k \in DOMAIN workers[c].recs : Rec(c, k).pc \in {"ok", "failed"}
          /\ (workers[c].pc = "running" /\ workers'[c].pc = "running") =>
                Cardinality({k \in DOMAIN workers[c].recs :
                                workers'[c].recs[k] # Rec(c, k)}) <= 1]_vars

OneFailedOtherCommitted ==
    \E c \in Consumers :
        /\ workers[c].pc = "running"
        /\ \E j, k \in DOMAIN workers[c].recs :
              /\ Rec(c, j).pc = "failed"
              /\ Rec(c, k).pc = "ok"
              /\ Rec(c, k).sentOk
              /\ Rec(c, k).wrote

\* C29: when the conditional write is rejected after a successful send the
\* task completes without error, the marker stays as it was and the task is
\* not redelivered; any other error of the write makes the task fail
RejectedWriteIsSuccess ==
    [][\A c \in Consumers : \A k \in DOMAIN workers[c].recs :
          /\ (/\ Rec(c, k).pc = "mark"
              /\ workers'[c].pc = "running"
              /\ workers'[c].recs[k].pc # "mark")
             => \/ /\ workers'[c].recs[k].pc = "ok"
                   /\ workers'[c].recs[k].wrote \/ users' = users
                \/ /\ workers'[c].recs[k].pc = "failed"
                   /\ users' = users
          /\ (/\ BatchEnds(c)
              /\ Rec(c, k).pc = "ok"
              /\ Rec(c, k).sentOk
              /\ ~Rec(c, k).wrote)
             => ~Returned(Rec(c, k).msg)
          /\ (BatchEnds(c) /\ Rec(c, k).pc = "failed") => Returned(Rec(c, k).msg)]_vars

\* C30: a task whose user has no record in the store makes no send and no
\* ledger write and completes without error, so that it is neither redelivered
\* nor dead-lettered
MissingUserTaskIsDropped ==
    [][\A c \in Consumers : \A k \in DOMAIN workers[c].recs :
          /\ (/\ Rec(c, k).pc = "fetch"
              /\ ~Malformed(Rec(c, k).msg.body)
              /\ Rec(c, k).msg.body.userId \notin UserIds
              /\ workers'[c].pc = "running"
              /\ workers'[c].recs[k] # Rec(c, k))
             => /\ workers'[c].recs[k].pc = "ok"
                /\ hist' = hist
                /\ users' = users
          /\ (/\ BatchEnds(c)
              /\ Rec(c, k).pc = "ok"
              /\ ~Rec(c, k).skipped
              /\ ~Rec(c, k).sentOk)
             => ~Returned(Rec(c, k).msg)]_vars

\* C28: the batches of one tick are submitted independently: the entries of
\* every batch whose submit succeeds are enqueued whatever happens to the other
\* batches, those of a batch whose submit fails are not, and an error while
\* preparing one user's entry leaves the other due users of the batch in the
\* submit
BatchesSubmittedIndependently ==
    [][budget'.ticks # budget.ticks =>
          LET userBatches == chunkArray(getUsersWithEventToday(now), SQS_BATCH_SIZE)
              res == tickOut'.results
          IN \A b \in DOMAIN res :
                LET due == {k \in DOMAIN userBatches[b] :
                               calculateSchedule(userBatches[b][k], now) # NoSchedule}
                    prepFailed == IF res[b].submitted /\ res[b].success = 0
                                  THEN res[b].failed - Len(res[b].entries)
                                  ELSE res[b].failed
                    enqueued(u) == \E m \in BagToSet(queue') :
                                      /\ m.body.userId = u
                                      /\ CopiesIn(m, queue') = CopiesIn(m, queue) + 1
                IN /\ Len(res[b].entries) <= Cardinality(due)
                   /\ Len(res[b].entries) >= Cardinality(due) - prepFailed
                   /\ prepFailed <= MaxPrepErrors
                   /\ \A k \in DOMAIN res[b].entries :
                         \E j \in due : userBatches[b][j] = res[b].entries[k]
                   /\ \A k \in DOMAIN res[b].entries :
                         enqueued(res[b].entries[k]) <=> res[b].success > 0]_vars

OneBatchRejectedOtherShortOfOne ==
    /\ budget.ticks = 1
    /\ Len(tickOut.results) = 2
    /\ \E a, b \in DOMAIN tickOut.results :
          /\ tickOut.results[a].submitted
          /\ tickOut.results[a].success = 0
          /\ tickOut.results[b].success = SQS_BATCH_SIZE - 1
          /\ tickOut.results[b].failed = 1
    /\ BagCardinality(queue) = SQS_BATCH_SIZE - 1

\* the users for whom the tick that left `out` prepared an entry
Prepared(out) ==
    UNION {{out.results[b].entries[k] : k \in DOMAIN out.results[b].entries} :
              b \in DOMAIN out.results}

\* C24: a delivery for the occurrence of one year that is sent and committed
\* only in the following year does not make the occurrence of that following
\* year count as delivered: a tick at or after the target hour of the birthday
\* emits a task for every user who was not yet sent the message of that
\* occurrence
LateCommitKeepsNextOccurrence ==
    [][budget'.ticks # budget.ticks =>
          \A u \in UserIds :
              (/\ DueAt(users[u].birthday, users[u].timezone, now)
               /\ \A o \in BagToSet(hist.sends) :
                     o[1] = u => o[2] < getCurrentTimeInTimezone(now, users[u].timezone).y)
              => u \in Prepared(tickOut')]_vars

----------------------------------------------------------------------------
(* deleteUser against an updateUser call and a consumer that have both read
   the user already *)

\* updateUser, up to its first await: existingUser = getUserById(userId);
\* null is returned when there is none
UpdateUserRead(userId, request) ==
    /\ api.updating = {}
    /\ api.calls < MaxCalls
    /\ api' = IF userId \in UserIds
              THEN [api EXCEPT !.calls = @ + 1,
                               !.updating = {[userId |-> userId, request |-> request]}]
              ELSE [api EXCEPT !.calls = @ + 1, !.notFound = @ \cup {userId}]
    /\ UNCHANGED <<now, users, queue, dlq, workers, tickOut, sweepOut, hist, budget, calc>>

\* faulty variant of UpdateItem: the item is written anew from the existing
\* user's profile and the request, without its delivery markers
UpdateItemPut(userId, request) ==
    [x \in UserIds \cup {userId} |->
        IF x = userId
        THEN [(IF userId \in UserIds THEN users[userId] ELSE NoItem) EXCEPT
                 !.birthday =
                     IF "birthday" \in DOMAIN request THEN request.birthday ELSE @,
                 !.birthdayMonthDay =
                     IF "birthday" \in DOMAIN request
                     THEN formatMonthDay(request.birthday) ELSE @,
                 !.timezone =
                     IF "timezone" \in DOMAIN request THEN request.timezone ELSE @,
                 !.lastBirthdayMessageDate = NoDate,
                 !.lastBirthdayMessageSent = NoInstant]
        ELSE users[x]]

\* the UpdateCommand of updateUser: a SET of the fields the request defines,
\* without ConditionExpression (UpdateItem creates the item when the key has
\* none)
UpdateItem(userId, request) ==
    [x \in UserIds \cup {userId} |->
        IF x = userId
        THEN [(IF userId \in UserIds THEN users[userId] ELSE NoItem) EXCEPT
                 !.birthday =
                     IF "birthday" \in DOMAIN request THEN request.birthday ELSE @,
                 !.birthdayMonthDay =
                     IF "birthday" \in DOMAIN request
                     THEN formatMonthDay(request.birthday) ELSE @,
                 !.timezone =
                     IF "timezone" \in DOMAIN request THEN request.timezone ELSE @]
        ELSE users[x]]

\* updateUser, from its UpdateCommand on
UpdateUserWrite(call) ==
    /\ call \in api.updating
    /\ users' = UpdateItem(call.userId, call.request)
    /\ api' = [api EXCEPT !.updating = @ \ {call}]
    /\ UNCHANGED <<now, queue, dlq, workers, tickOut, sweepOut, hist, budget, calc>>

\* deleteUser(userId): a DeleteCommand on the key; true when an item was
\* there
DeleteUser(userId) ==
    /\ userId \in UserIds
    /\ users' = [x \in UserIds \ {userId} |-> users[x]]
    /\ api' = [api EXCEPT !.removed = @ \cup {userId}]
    /\ UNCHANGED <<now, queue, dlq, workers, tickOut, sweepOut, hist, budget, calc>>

\* user 1 never delivered or delivered a year ago
DeleteTables ==
    {(1 :> i) : i \in {Item(BatchBirthday, 0, NoDate, NoInstant),
                       Item(BatchBirthday, 0, BatchBirthday,
                            MarkerSentIn(BatchBirthday, 0, BatchInstant.y - 1))}}

\* the task of user 1 is in the queue
InitDelete ==
    /\ now = BatchInstant
    /\ users \in DeleteTables
    /\ queue = One(BatchTask(1, BatchBirthday))
    /\ dlq = EmptyBag
    /\ hist = NoHist
    /\ workers = [c \in Consumers |-> IdleWorker]
    /\ tickOut = NoTickOut
    /\ sweepOut = NoSweepOut
    /\ budget = NoBudget
    /\ api = NoApi
    /\ calc = NoCalc

NextDelete ==
    \/ OneTaskAtATime
    \/ \E userId \in UserIds : \E request \in UpdateUserRequests :
          UpdateUserRead(userId, request)
    \/ \E call \in api.updating : UpdateUserWrite(call)
    \/ \E userId \in UserIds : DeleteUser(userId)

SpecDelete == InitDelete /\ [][NextDelete]_vars

\* C26: once deleteUser has removed a user, the table holds no item under
\* that id, whatever an updateUser call or a consumer that had read the user
\* before does afterwards
RemovedUserHasNoRecord == \A id \in api.removed : id \notin UserIds

\* the malformed messages of a bag, counted with their copies
MalformedIn(bag) ==
    LET bad == {m \in BagToSet(bag) : Malformed(m.body)}
    IN BagCardinality([m \in bad |-> bag[m]])

\* the malformed records the instances hold
MalformedInFlight ==
    Cardinality({ck \in Consumers \X (1..CONSUMER_BATCH_SIZE) :
                    /\ Processing(ck[1], ck[2])
                    /\ Malformed(Rec(ck[1], ck[2]).msg.body)})

\* a malformed record stands before processEventMessage or has failed there
MalformedUntouched ==
    \A c \in Consumers : \A k \in DOMAIN workers[c].recs :
        Malformed(Rec(c, k).msg.body) =>
            /\ Rec(c, k).pc \in {"fetch", "failed"}
            /\ ~Rec(c, k).skipped /\ ~Rec(c, k).sentOk /\ ~Rec(c, k).wrote

\* C31: a malformed task causes no store read, no send and no ledger write;
\* it is never acknowledged, so it stays in the queue, in flight or in the
\* dead-letter queue, and it is in the queue only while it has been received
\* fewer than maxReceiveCount times
MalformedTaskFailsToDeadLetter ==
    [][/\ MalformedUntouched'
       /\ MalformedIn(queue') + MalformedInFlight' + MalformedIn(dlq')
             = MalformedIn(queue) + MalformedInFlight + MalformedIn(dlq)
       /\ \A m \in BagToSet(queue') : Malformed(m.body) => ~ToDlq(m)]_vars

MalformedTaskDeadLettered ==
    \E m \in BagToSet(dlq) : Malformed(m.body) /\ m.rc = DLQ_MAX_RECEIVE_COUNT

----------------------------------------------------------------------------
(* Sweeps with per-user errors and a consumer whose ledger read may fail,
   over tables of two users *)

InitFaulty ==
    /\ now \in SweepInstants
    /\ users \in {t \in SweepTables(now) : PossibleTable(t, now) /\ 2 \in DOMAIN t}
    /\ queue = EmptyBag
    /\ dlq = EmptyBag
    /\ hist = NoHist
    /\ workers = [c \in Consumers |-> IdleWorker]
    /\ tickOut = NoTickOut
    /\ sweepOut = NoSweepOut
    /\ budget = NoBudget
    /\ api = NoApi
    /\ calc = NoCalc

NextFaulty == RecoverWith \/ OneTaskAtATime \/ CheckFail(1, 1)

SpecFaulty == InitFaulty /\ [][NextFaulty]_vars

\* C32: a failed ledger read counts as not delivered and raises nothing: the
\* consumer goes on to send, and the sweep emits the task of every user whose
\* read failed unless another step of that user's handling fails
FailedLedgerReadCountsAsNotSent ==
    /\ \A c \in Consumers : \A k \in DOMAIN workers[c].recs :
          Rec(c, k).unread =>
              /\ ~Rec(c, k).skipped
              /\ Rec(c, k).pc \in {"send", "mark", "ok"}
              /\ Rec(c, k).pc \in {"mark", "ok"} => Rec(c, k).sentOk
    /\ sweepOut.ran =>
          \A u \in sweepOut.unread \ sweepOut.failed : CountIn(sweepOut.queued, u) = 1

\* a user delivered this year is emitted again by a sweep that could not read
\* the ledger, and a consumer that could not read it has sent again
DeliveredUserSentAgainAfterFailedRead ==
    /\ sweepOut.ran
    /\ \E u \in sweepOut.unread :
          /\ sweepOut.table[u].lastBirthdayMessageDate = sweepOut.table[u].birthday
          /\ sweepOut.table[u].lastBirthdayMessageSent.y = sweepOut.at.y
          /\ CountIn(sweepOut.queued, u) = 1
    /\ \E k \in DOMAIN workers[1].recs :
          /\ Rec(1, k).unread /\ Rec(1, k).sentOk
          /\ wasMessageSent(Rec(1, k).msg.body.userId, Rec(1, k).msg.body.eventDate, now)

\* whether the item bears the marker of the year of `clock` for its birthday
FoundDelivered(item, clock) ==
    /\ item.lastBirthdayMessageDate = item.birthday
    /\ ~Absent(item.lastBirthdayMessageSent)
    /\ item.lastBirthdayMessageSent.y = clock.y

\* C33: a sweep completes whatever errors its candidates raise: every
\* candidate that is not found delivered and whose own handling raised no
\* error has its task emitted once, a candidate whose handling raised an
\* error has none
SweepSurvivesCandidateErrors ==
    sweepOut.ran =>
        \A u \in Range(sweepOut.found) :
            /\ (/\ u \notin sweepOut.failed
                /\ u \in sweepOut.unread \/ ~FoundDelivered(sweepOut.table[u], sweepOut.at))
               => CountIn(sweepOut.queued, u) = 1
            /\ u \in sweepOut.failed => CountIn(sweepOut.queued, u) = 0

\* the first candidate raised an error and the task of the second is queued
SweepEmitsAfterFailedCandidate ==
    /\ sweepOut.ran
    /\ Len(sweepOut.found) = 2
    /\ sweepOut.found[1] \in sweepOut.failed
    /\ sweepOut.queued = <<sweepOut.found[2]>>
    /\ RecoveryMessage(sweepOut.found[2], sweepOut.at) \in BagToSet(queue)

----------------------------------------------------------------------------
(* Users edited through the API while the scheduler and one consumer run *)

\* user 1 never delivered, delivered a year ago or delivered this year
EditTables ==
    {(1 :> i) : i \in {Item(BatchBirthday, 0, NoDate, NoInstant),
                       Item(BatchBirthday, 0, BatchBirthday,
                            MarkerSentIn(BatchBirthday, 0, BatchInstant.y - 1)),
                       Item(BatchBirthday, 0, BatchBirthday, BatchInstant)}}

\* the requests of the run: a new user born on the day of the run; a birthday
\* moved into the lookback window, a timezone changed
EditCreateRequests == {[birthday |-> BatchBirthday, timezone |-> 0]}

EditUpdateRequests ==
    {[birthday |-> [y |-> 1992, m |-> 12, d |-> 24]], [timezone |-> 14]}

InitEdit ==
    /\ now = BatchInstant
    /\ users \in EditTables
    /\ queue = EmptyBag
    /\ dlq = EmptyBag
    /\ hist = NoHist
    /\ workers = [c \in Consumers |-> IdleWorker]
    /\ tickOut = NoTickOut
    /\ sweepOut = NoSweepOut
    /\ budget = NoBudget
    /\ api = NoApi
    /\ calc = NoCalc

NextEdit ==
    \/ SchedulerNext
    \/ OneTaskAtATime
    \/ \E request \in EditCreateRequests : CreateUser(request)
    \/ \E userId \in 1..MaxUsers : \E request \in EditUpdateRequests :
          UpdateUserRead(userId, request)
    \/ \E call \in api.updating : UpdateUserWrite(call)

SpecEdit == InitEdit /\ [][NextEdit]_vars

\* C34: the scheduler's filter excludes a user exactly when the ledger check
\* for the user's event date reports the delivery of this year
FilterExcludesIffLedgerSaysSent ==
    \A u \in UserIds :
        ~PassesSentFilter(users[u], now.y) <=> wasMessageSent(u, getEventDate(u), now)

\* C35: in every user record the two delivery markers are both absent or both
\* present
MarkersSetTogether ==
    \A u \in UserIds :
        (users[u].lastBirthdayMessageDate = NoDate)
            <=> Absent(users[u].lastBirthdayMessageSent)

\* a record marked by the consumer in this run and then edited by updateUser,
\* next to a record created in this run
MarkedThenEditedNextToCreated ==
    /\ BagCardinality(hist.accepted) > 0
    /\ api.calls > 0 /\ api.updating = {} /\ api.notFound = {}
    /\ Len(users) = MaxUsers
    /\ users[1].lastBirthdayMessageSent = now
    /\ users[MaxUsers].lastBirthdayMessageDate = NoDate

\* C40: an updateUser call on an id without record answers null and writes
\* nothing; on an existing user its write changes the fields of the request,
\* and birthdayMonthDay with the birthday, and leaves every other attribute
\* and every other record as they were
UpdateUserChangesRequestedFieldsOnly ==
    [][/\ api'.calls # api.calls =>
             /\ users' = users
             /\ \A call \in api'.updating : call.userId \in UserIds
             /\ \A id \in api'.notFound \ api.notFound : id \notin UserIds
             /\ api'.updating = {} => api'.notFound # {}
       /\ (api.updating # {} /\ api'.updating = {}) =>
             \A call \in api.updating :
                 LET old == users[call.userId]
                     new == users'[call.userId]
                     request == call.request
                 IN /\ DOMAIN users' = DOMAIN users
                    /\ \A u \in UserIds \ {call.userId} : users'[u] = users[u]
                    /\ new.birthday = IF "birthday" \in DOMAIN request
                                      THEN request.birthday ELSE old.birthday
                    /\ new.birthdayMonthDay =
                          IF "birthday" \in DOMAIN request
                          THEN formatMonthDay(request.birthday)
                          ELSE old.birthdayMonthDay
                    /\ new.timezone = IF "timezone" \in DOMAIN request
                                      THEN request.timezone ELSE old.timezone
                    /\ new.lastBirthdayMessageDate = old.lastBirthdayMessageDate
                    /\ new.lastBirthdayMessageSent = old.lastBirthdayMessageSent]_vars

\* the birthday of a delivered user was changed and the markers are as before
BirthdayEditedMarkersKept ==
    /\ api.calls > 0 /\ api.updating = {}
    /\ users[1].birthday # BatchBirthday
    /\ users[1].lastBirthdayMessageDate = BatchBirthday
    /\ ~Absent(users[1].lastBirthdayMessageSent)

----------------------------------------------------------------------------
(* Ticks over tables of 0 to MaxChunkUsers users who are all due *)

ChunkTables ==
    {[u \in 1..n |-> Item(BatchBirthday, 0, NoDate, NoInstant)] : n \in 0..MaxChunkUsers}

InitChunk ==
    /\ now = BatchInstant
    /\ users \in ChunkTables
    /\ queue = EmptyBag
    /\ dlq = EmptyBag
    /\ hist = NoHist
    /\ workers = [c \in Consumers |-> IdleWorker]
    /\ tickOut = NoTickOut
    /\ sweepOut = NoSweepOut
    /\ budget = NoBudget
    /\ api = NoApi
    /\ calc = NoCalc

NextChunk == SchedulerNext \/ Advance

SpecChunk == InitChunk /\ [][NextChunk]_vars

\* the chunks one after the other
RECURSIVE Flatten(_)
Flatten(chunks) ==
    IF chunks = <<>> THEN <<>> ELSE Head(chunks) \o Flatten(Tail(chunks))

\* C36: the batches of a tick have 1 to 10 users each, every batch but the
\* last has 10, the batches in order are the list of users found, and no
\* user found gives no batch; the tick prepares its entries batch by batch
BatchesPartitionTheUsersFound ==
    LET found == getUsersWithEventToday(now)
        chunks == chunkArray(found, SQS_BATCH_SIZE)
    IN /\ \A b \in DOMAIN chunks :
             /\ Len(chunks[b]) \in 1..SQS_BATCH_SIZE
             /\ b < Len(chunks) => Len(chunks[b]) = SQS_BATCH_SIZE
       /\ Flatten(chunks) = found
       /\ found = <<>> => chunks = <<>>
       /\ (tickOut.outcome # "none" /\ budget.hours = 0) =>
             /\ Len(tickOut.results) = Len(chunks)
             /\ \A b \in DOMAIN chunks : tickOut.results[b].entries = chunks[b]

\* a tick over 21 users made two batches of 10 and one of 1
TickMadeThreeBatches ==
    /\ tickOut.outcome # "none"
    /\ Len(getUsersWithEventToday(now)) = 2 * SQS_BATCH_SIZE + 1
    /\ Len(tickOut.results) = 3
    /\ Len(tickOut.results[3].entries) = 1

----------------------------------------------------------------------------
(* One consumer against a sink that answers with any status or not at all,
   HOOKBIN_URL set or not *)

InitSink ==
    /\ now = BatchInstant
    /\ users \in EditTables
    /\ queue = One(BatchTask(1, BatchBirthday))
    /\ dlq = EmptyBag
    /\ hist = NoHist
    /\ workers = [c \in Consumers |-> IdleWorker]
    /\ tickOut = NoTickOut
    /\ sweepOut = NoSweepOut
    /\ budget = NoBudget
    /\ api = NoApi
    /\ calc = NoCalc

NextSink ==
    \/ \E m \in BagToSet(queue) : Receive(1, One(m))
    \/ Fetch(1, 1)
    \/ Check(1, 1)
    \/ \E configured \in BOOLEAN : \E answer \in SinkAnswers :
          SendTo(1, 1, configured, answer)
    \/ Mark(1, 1)
    \/ Finish(1)

SpecSink == InitSink /\ [][NextSink]_vars

\* the sink answered the request with 200, 201 or 204
SinkAccepted(sink) ==
    /\ sink.requested
    /\ sink.answer.kind = "response"
    /\ sink.answer.status \in {200, 201, 204}

\* C37: a send succeeds exactly when the sink answers 200, 201 or 204; any
\* other status and a request without response make it fail, and without
\* sink URL it fails with no request made
SendSucceedsOn200_201_204Only ==
    \A c \in Consumers : \A k \in DOMAIN workers[c].recs :
        LET rec == Rec(c, k) IN
        /\ rec.sentOk <=> SinkAccepted(rec.sink)
        /\ rec.sentOk => rec.pc \in {"mark", "ok"}
        /\ ~rec.sink.configured => (~rec.sink.requested /\ rec.pc = "failed")
        /\ (rec.sink.requested /\ ~SinkAccepted(rec.sink)) => rec.pc = "failed"
        /\ rec.pc = "failed" => (~rec.sink.configured \/ rec.sink.requested)
        /\ rec.pc \in {"fetch", "check", "send"} => rec.sink = NoSink

\* the sink answered 204 to the third delivery of a task: sent and committed
SentOnThirdDeliveryWith204 ==
    \E k \in DOMAIN workers[1].recs :
        /\ Rec(1, k).msg.rc = DLQ_MAX_RECEIVE_COUNT
        /\ Rec(1, k).msg.badSends = 2
        /\ Rec(1, k).sink.answer.status = 204
        /\ Rec(1, k).sentOk /\ Rec(1, k).wrote

----------------------------------------------------------------------------
(* Scheduler and sweeper invocations with and without SQS_QUEUE_URL *)

NextConfig ==
    \/ SchedulerNext
    \/ TickNoQueueUrl
    \/ RecoveryNext
    \/ RecoverNoQueueUrl
    \/ Advance

SpecConfig == InitRecovery /\ [][NextConfig]_vars

\* C38: a scheduler invocation and a recovery invocation without queue
\* endpoint fail before they query the index and emit nothing
NoQueueUrlFailsBeforeAnyQuery ==
    [][/\ (budget'.ticks # budget.ticks /\ ~tickOut'.queueUrl) =>
             /\ tickOut'.outcome = "error"
             /\ tickOut'.queries = 0
             /\ tickOut'.results = <<>>
             /\ queue' = queue
       /\ (budget'.sweeps # budget.sweeps /\ ~sweepOut'.queueUrl) =>
             /\ ~sweepOut'.ran
             /\ sweepOut'.queries = 0
             /\ sweepOut'.found = <<>> /\ sweepOut'.queued = <<>>
             /\ queue' = queue]_vars

\* both invocations failed for want of the endpoint while a user was due and
\* unmarked, and the queue is empty
BothFailedWithDueUser ==
    /\ tickOut.outcome = "error" /\ ~tickOut.queueUrl
    /\ ~sweepOut.queueUrl /\ budget.sweeps = MaxSweeps
    /\ queue = EmptyBag
    /\ \E u \in UserIds :
          /\ users[u].lastBirthdayMessageDate = NoDate
          /\ DueAt(users[u].birthday, users[u].timezone, now)

----------------------------------------------------------------------------
(* calculateDelaySeconds over dates, offsets, hours and instants around the
   target *)

DelayDates ==
    {[y |-> 2024, m |-> 2, d |-> 29], [y |-> 2024, m |-> 12, d |-> 30],
     [y |-> 2024, m |-> 12, d |-> 31], [y |-> 2025, m |-> 1, d |-> 1],
     [y |-> 2026, m |-> 1, d |-> 1]}

DelayHours == {0, TARGET_HOUR, 23}

\* milliseconds past the hour of the clock: the hour itself, around a whole
\* second, around 900 seconds before the next hour, the end of the hour
DelayMillis == {0, 1, 999, 1000, 2699000, 2699999, 2700000, 2700001, 3599999}

InitDelay ==
    /\ now \in SweepInstants
    /\ users = <<>>
    /\ queue = EmptyBag
    /\ dlq = EmptyBag
    /\ hist = NoHist
    /\ workers = [c \in Consumers |-> IdleWorker]
    /\ tickOut = NoTickOut
    /\ sweepOut = NoSweepOut
    /\ budget = NoBudget
    /\ api = NoApi
    /\ calc = NoCalc

\* one call per behaviour: the function keeps no state
CalculateDelay(dateString, timezone, hour, ms) ==
    /\ ~calc.called
    /\ calc' = [called |-> TRUE, dateString |-> dateString, timezone |-> timezone,
                hour |-> hour, ms |-> ms,
                result |-> calculateDelaySeconds(dateString, timezone, hour, now, ms)]
    /\ UNCHANGED <<now, users, queue, dlq, workers, tickOut, sweepOut, hist, budget, api>>

NextDelay ==
    \E dateString \in DelayDates : \E timezone \in AllZones :
        \E hour \in DelayHours : \E ms \in DelayMillis :
            CalculateDelay(dateString, timezone, hour, ms)

SpecDelay == InitDelay /\ [][NextDelay]_vars

\* the whole hours from the clock to the target of the last call
HoursToTarget ==
    getTime(getTargetHourInUTC(calc.dateString, calc.timezone, calc.hour)) - getTime(now)

\* C39: the delay is a whole number of seconds from 0 to 900: 0 when the
\* target is at or before now, 900 when it is 900 seconds or more ahead, and
\* the seconds to the target rounded down in between
DelayIsClampedWholeSeconds ==
    calc.called =>
        /\ calc.result \in 0..900
        /\ HoursToTarget <= 0 => calc.result = 0
        /\ (HoursToTarget > 1 \/ (HoursToTarget = 1 /\ calc.ms <= 2700000))
              => calc.result = 900
        /\ (HoursToTarget = 1 /\ calc.ms > 2700000)
              => calc.result = (3600000 - calc.ms) \div 1000

\* a target 899.999 seconds ahead gives 899, in an offset east of UTC
DelayJustUnderTheCap ==
    /\ calc.called
    /\ calc.timezone > 0
    /\ HoursToTarget = 1
    /\ calc.ms = 2700001
    /\ calc.result = 899

====
